---- MODULE Spec2Model ----
(***************************************************************************)
(* A model of the research pipeline of zech.sh and of the web-access       *)
(* substrate it depends on:                                                *)
(*   - controllers/domain_throttle.py : per-domain rate limiting,          *)
(*   - controllers/scan_agent.py      : the agent task, its tools and the  *)
(*                                      orchestrator run_research_pipeline,*)
(*   - controllers/scan.py            : the chat endpoints and the SSE     *)
(*                                      generator of /chat/<id>/stream.    *)
(* The three parts share no state in the code, so each is checked under    *)
(* its own specification (SpecThrottle, SpecPipeline, SpecChat); Spec is   *)
(* their composition.                                                      *)
(***************************************************************************)
EXTENDS Integers, Sequences, FiniteSets, TLC

VARIABLES
    \* ---- domain_throttle.py (in-process mode) ----
    clock,                 \* time.monotonic(), in whole seconds
    memory_rate_limits,    \* _memory_rate_limits: domain -> last request timestamp
    memory_lock,           \* _memory_lock: the callers inside an `async with` block
    wpc,                   \* position of each caller of wait_for_rate_limit
    wdomain,               \* the domain each caller waits on
    wake,                  \* now + wait_time of a sleeping caller
    grantAt,               \* the time at which a caller's call returned
    \* ---- domain_throttle.py (Redis mode) ----
    redis_keys,            \* scan:ratelimit:<domain> keys: domain -> expiry time, in ms
    redis_pc,              \* position of each caller of _wait_redis
    redis_domain,          \* the domain each caller waits on
    redis_remaining,       \* remaining_ms of a caller's last PTTL
    redis_asked,           \* the time of a caller's last PTTL (history)
    redis_wake,            \* the time a sleeping caller's asyncio.sleep is due
    redis_acquired,        \* the caller's own SET NX succeeded (history)
    redis_grant,           \* the time at which a caller's call returned (history)
    \* ---- robots.py ----
    robots_content,        \* the lines of a robots.txt, as served
    robots_parsed,         \* parse_robots_txt(content), once it ran
    robots_query,          \* the last call of is_path_allowed / _find_matching_group
    \* ---- robots.py: the robots_txt_cache table and its callers ----
    robots_txt_cache,      \* the rows of the table, in insertion order
    utc_hours,             \* datetime.now(timezone.utc), in whole hours
    cpc,                   \* position of each caller of check_url_allowed
    ccall,                 \* the locals of each caller's call, and what it did (history)
    \* ---- domain_throttle.py: the response cache ----
    kv_store,              \* the Redis keys scan:cache:<hash>: key -> value and expiry
    unix_seconds,          \* the wall clock of Redis and of datetime.now(), in seconds
    last_stored,           \* per URL, the last cache_response that stored a value (history)
    ttl_call,              \* the last call of _parse_cache_ttl and its result
    cache_call,            \* the last call of cache_response / get_cached_response
    \* ---- scan_agent.py: fetch_and_extract and the research tool's loop ----
    last_got,              \* per URL, the last GET of a cacheable body with TTL > 0 (history)
    fetch_call,            \* the last call of fetch_and_extract and what it did
    research_tool,         \* a call of the tool research: its locals, log and return value
    \* ---- scan_agent.py: classify_query ----
    classify_call,         \* the last classify_query: the model's output and what came of it
    \* ---- scan_agent.py: one run of run_research_pipeline ----
    rpc,                   \* position of the orchestrator's async generator
    consumer,              \* who iterates the generator: "direct", or the stream of generate()
    full_query,            \* the agent's effective prompt, as its parts in order
    queue,                 \* the asyncio.Queue between the agent task and the generator
    event,                 \* the generator's local `event`
    sent_responding,       \* the generator's local `sent_responding`
    tpc,                   \* position of the agent task
    tool,                  \* locals of the research tool call in progress
    fetched_urls,          \* deps.fetched_urls
    toolCalls,             \* research calls made by the agent in this run
    textCount,             \* text deltas streamed by the agent in this run
    written,               \* every event put on the queue, in order (history)
    yielded,               \* every event the generator yielded, in order (history)
    raised,                \* the error the agent run raised, "" if none (history)
    asked,                 \* the questions ask_user was called with, "" if none (history)
    activeAfterClose,      \* the task acted after its generator was closed (history)
    \* ---- scan.py: the chat store and the stream endpoint ----
    sessions,              \* chat_session rows: chat id (index) -> user_id
    messages,              \* chat_message rows in created_at order
    streams,               \* the requests GET /chat/<id>/stream made so far
    utcnow,                \* datetime.now(timezone.utc) as last read, in ticks
    updated_at,            \* chat_session.updated_at: chat id (index) -> timestamp
    created_at,            \* chat_message.created_at: message (index) -> timestamp
    response               \* the request handled last and what it was answered (history)

redisVars == <<redis_keys, redis_pc, redis_domain, redis_remaining, redis_asked,
               redis_wake, redis_acquired, redis_grant>>

robotsVars == <<robots_content, robots_parsed, robots_query>>

robotsCacheVars == <<robots_txt_cache, utc_hours, cpc, ccall>>

cacheVars == <<kv_store, unix_seconds, last_stored, ttl_call, cache_call>>

fetchVars == <<last_got, fetch_call, research_tool>>

webVars == <<robotsCacheVars, cacheVars, fetchVars, classify_call>>

throttleVars == <<clock, memory_rate_limits, memory_lock, wpc, wdomain, wake, grantAt,
                  redisVars, robotsVars, webVars>>

pipelineVars == <<rpc, consumer, full_query, queue, event, sent_responding, tpc, tool,
                  fetched_urls, toolCalls, textCount, written, yielded, raised, asked,
                  activeAfterClose>>

chatVars == <<sessions, messages, streams, utcnow, updated_at, created_at, response>>

vars == <<throttleVars, pipelineVars, chatVars>>

(***************************************************************************)
(* Bounds of the model.                                                    *)
(***************************************************************************)
NumCallers == 4
MaxClock == 6
DelaySeconds == 2
MaxOversleep == 0
MaxToolCalls == 1
MaxTexts == 2
MaxChats == 2
MaxMessages == 2
MaxStreams == 1
MaxLines == 3
MaxHours == 24
NumCheckers == 2
MaxDirectives == 2
MaxSeconds == 90
MaxFetchCalls == 2
NumClients == 3

Callers == 1..NumCallers
Clients == 1..NumClients
Domains == {"a.test", "b.test"}

(***************************************************************************)
(* domain_throttle.py: wait_for_rate_limit / _wait_memory                  *)
(***************************************************************************)

\* dict.get(domain, 0.0)
GetLast(limits, domain) ==
    IF domain \in DOMAIN limits THEN limits[domain] ELSE 0

\* _memory_rate_limits[domain] = t, written to the entry of every domain
SetLastEverywhere(limits, domain, t) ==
    [d \in Domains |-> t]

\* _memory_rate_limits[domain] = t
SetLast(limits, domain, t) ==
    [d \in (DOMAIN limits) \cup {domain} |-> IF d = domain THEN t ELSE limits[d]]

\* `async with _memory_lock:` is entered by caller c; asyncio.Lock lets one
\* caller in at a time.
Acquire(lock, c) == lock \cup {c}

\* The `async with _memory_lock:` block of caller c is left.
Release(lock, c) == lock \ {c}

\* The value the final locked block of _wait_memory stores: time.monotonic().
RecordedGrant(now, reserved) == now

\* time.monotonic() counts from the boot of the machine: the process makes its
\* first call no earlier than DelaySeconds after it.
ThrottleInit ==
    /\ clock = DelaySeconds
    /\ memory_rate_limits = << >>
    /\ memory_lock = {}
    /\ wpc = [c \in Callers |-> "idle"]
    /\ wdomain = [c \in Callers |-> "a.test"]
    /\ wake = [c \in Callers |-> 0]
    /\ grantAt = [c \in Callers |-> 0]
    /\ redis_keys = << >>
    /\ redis_pc = [c \in Clients |-> "idle"]
    /\ redis_domain = [c \in Clients |-> "a.test"]
    /\ redis_remaining = [c \in Clients |-> 0]
    /\ redis_asked = [c \in Clients |-> 0]
    /\ redis_wake = [c \in Clients |-> 0]
    /\ redis_acquired = [c \in Clients |-> FALSE]
    /\ redis_grant = [c \in Clients |-> 0]

\* The monotonic clock advances.  The event loop resumes a sleeper at most
\* MaxOversleep after its asyncio.sleep(wait_time) is due.
Tick ==
    /\ clock < MaxClock
    /\ \A c \in Callers : wpc[c] = "sleeping" => clock < wake[c] + MaxOversleep
    /\ \A c \in Clients : redis_pc[c] = "sleeping" => clock < redis_wake[c] + MaxOversleep
    /\ clock' = clock + 1
    /\ UNCHANGED <<memory_rate_limits, memory_lock, wpc, wdomain, wake, grantAt, redisVars,
                   robotsVars, webVars>>
    /\ UNCHANGED <<pipelineVars, chatVars>>

\* wait_for_rate_limit(domain, DelaySeconds) with redis_url = "": the first
\* locked block of _wait_memory.  No await separates the blocks when no sleep is
\* needed, so such a call runs to its return in one step.  The block holds no
\* await either: the lock is taken and given back within the step.
WaitMemoryEnter(c, domain) ==
    /\ wpc[c] = "idle"
    /\ memory_lock = {}
    /\ memory_lock' = Release(Acquire(memory_lock, c), c)
    /\ LET now == clock
           last == GetLast(memory_rate_limits, domain)
           elapsed == now - last
           wait_time == DelaySeconds - elapsed
       IN  IF elapsed < DelaySeconds
           THEN /\ memory_rate_limits' = SetLast(memory_rate_limits, domain, now + wait_time)
                /\ wpc' = [wpc EXCEPT ![c] = "sleeping"]
                /\ wake' = [wake EXCEPT ![c] = now + wait_time]
                /\ UNCHANGED grantAt
           ELSE /\ memory_rate_limits' = SetLast(memory_rate_limits, domain, RecordedGrant(now, now))
                /\ wpc' = [wpc EXCEPT ![c] = "returned"]
                /\ grantAt' = [grantAt EXCEPT ![c] = now]
                /\ UNCHANGED wake
    /\ wdomain' = [wdomain EXCEPT ![c] = domain]
    /\ UNCHANGED <<clock, redisVars, robotsVars, webVars>>
    /\ UNCHANGED <<pipelineVars, chatVars>>

\* asyncio.sleep(wait_time) is over (it lasts at least wait_time); the second
\* locked block records time.monotonic() and the call returns.
WaitMemoryWake(c) ==
    /\ wpc[c] = "sleeping"
    /\ clock >= wake[c]
    /\ memory_lock = {}
    /\ memory_lock' = Release(Acquire(memory_lock, c), c)
    /\ memory_rate_limits' =
          SetLast(memory_rate_limits, wdomain[c], RecordedGrant(clock, wake[c]))
    /\ wpc' = [wpc EXCEPT ![c] = "returned"]
    /\ grantAt' = [grantAt EXCEPT ![c] = clock]
    /\ UNCHANGED <<clock, wdomain, wake, redisVars, robotsVars, webVars>>
    /\ UNCHANGED <<pipelineVars, chatVars>>

ThrottleNext ==
    \/ Tick
    \/ \E c \in Callers, d \in Domains : WaitMemoryEnter(c, d)
    \/ \E c \in Callers : WaitMemoryWake(c)

(***************************************************************************)
(* domain_throttle.py: wait_for_rate_limit / _wait_redis                   *)
(* Each Redis command is one step; other callers run between the commands  *)
(* of a caller, and the clock may advance there.                           *)
(***************************************************************************)

\* milliseconds in a second: int(delay_seconds * 1000), remaining_ms / 1000.0
MsPerSecond == 1000

memoryVars == <<memory_rate_limits, memory_lock, wpc, wdomain, wake, grantAt>>

\* A key set without an expiry: once set it exists for good.
KeyExistsForever(keys, domain, now_ms) ==
    domain \in DOMAIN keys

\* The key of the domain exists at time now_ms: it was set and has not expired.
KeyExists(keys, domain, now_ms) ==
    domain \in DOMAIN keys /\ keys[domain] > now_ms

\* A SET without NX: it succeeds whether the key exists or not.
SetAlways(keys, domain, now_ms, ttl_ms) ==
    [acquired |-> TRUE,
     keys |-> [d \in (DOMAIN keys) \cup {domain} |->
                  IF d = domain THEN now_ms + ttl_ms ELSE keys[d]]]

\* r.set(key, "1", nx=True, px=ttl_ms): whether it set the key, and the keys after.
SetNx(keys, domain, now_ms, ttl_ms) ==
    IF KeyExists(keys, domain, now_ms)
    THEN [acquired |-> FALSE, keys |-> keys]
    ELSE [acquired |-> TRUE,
          keys |-> [d \in (DOMAIN keys) \cup {domain} |->
                       IF d = domain THEN now_ms + ttl_ms ELSE keys[d]]]

\* r.pttl(key): the remaining time to live, -2 when the key does not exist.
Pttl(keys, domain, now_ms) ==
    IF KeyExists(keys, domain, now_ms) THEN keys[domain] - now_ms ELSE -2

\* wait_for_rate_limit(domain, DelaySeconds) with a Redis client: _wait_redis is
\* entered, at the top of its loop.
WaitRedisEnter(c, domain) ==
    /\ redis_pc[c] = "idle"
    /\ redis_pc' = [redis_pc EXCEPT ![c] = "set"]
    /\ redis_domain' = [redis_domain EXCEPT ![c] = domain]
    /\ UNCHANGED <<redis_keys, redis_remaining, redis_asked, redis_wake, redis_acquired,
                   redis_grant>>
    /\ UNCHANGED <<clock, memoryVars, robotsVars, webVars, pipelineVars, chatVars>>

\* The top of the loop: SET NX PX; the call returns when it acquired the key.
WaitRedisSet(c) ==
    /\ redis_pc[c] = "set"
    /\ LET ttl_ms == DelaySeconds * MsPerSecond
           res == SetNx(redis_keys, redis_domain[c], clock * MsPerSecond, ttl_ms)
       IN  /\ redis_keys' = res.keys
           /\ IF res.acquired
              THEN /\ redis_pc' = [redis_pc EXCEPT ![c] = "returned"]
                   /\ redis_acquired' = [redis_acquired EXCEPT ![c] = TRUE]
                   /\ redis_grant' = [redis_grant EXCEPT ![c] = clock]
              ELSE /\ redis_pc' = [redis_pc EXCEPT ![c] = "pttl"]
                   /\ UNCHANGED <<redis_acquired, redis_grant>>
    /\ UNCHANGED <<redis_domain, redis_remaining, redis_asked, redis_wake>>
    /\ UNCHANGED <<clock, memoryVars, robotsVars, webVars, pipelineVars, chatVars>>

\* The key existed: PTTL, then `continue` when nothing remains, else the sleep.
WaitRedisPttl(c) ==
    /\ redis_pc[c] = "pttl"
    /\ LET remaining_ms == Pttl(redis_keys, redis_domain[c], clock * MsPerSecond)
       IN  /\ redis_remaining' = [redis_remaining EXCEPT ![c] = remaining_ms]
           /\ redis_asked' = [redis_asked EXCEPT ![c] = clock]
           /\ IF remaining_ms <= 0
              THEN /\ redis_pc' = [redis_pc EXCEPT ![c] = "set"]
                   /\ UNCHANGED redis_wake
              ELSE /\ redis_pc' = [redis_pc EXCEPT ![c] = "sleeping"]
                   /\ redis_wake' = [redis_wake EXCEPT ![c] =
                                        clock + (remaining_ms \div MsPerSecond)]
    /\ UNCHANGED <<redis_keys, redis_domain, redis_acquired, redis_grant>>
    /\ UNCHANGED <<clock, memoryVars, robotsVars, webVars, pipelineVars, chatVars>>

\* asyncio.sleep(wait_time) is over: back to the top of the loop.
WaitRedisWake(c) ==
    /\ redis_pc[c] = "sleeping"
    /\ clock >= redis_wake[c]
    /\ redis_pc' = [redis_pc EXCEPT ![c] = "set"]
    /\ UNCHANGED <<redis_keys, redis_domain, redis_remaining, redis_asked, redis_wake,
                   redis_acquired, redis_grant>>
    /\ UNCHANGED <<clock, memoryVars, robotsVars, webVars, pipelineVars, chatVars>>

RedisNext ==
    \/ Tick
    \/ \E c \in Clients, d \in Domains : WaitRedisEnter(c, d)
    \/ \E c \in Clients : WaitRedisSet(c)
    \/ \E c \in Clients : WaitRedisPttl(c)
    \/ \E c \in Clients : WaitRedisWake(c)

(***************************************************************************)
(* robots.py: parse_robots_txt, _find_matching_group, _path_matches,       *)
(* is_path_allowed.  A string the code takes apart (a user-agent, a path)  *)
(* is the sequence of its characters.                                      *)
(***************************************************************************)

\* WATCHED_USER_AGENTS
WATCHED_USER_AGENTS == <<
    <<"s", "c", "a", "n", "-", "z", "e", "c", "h", "-", "s", "h", "-", "r", "e", "s", "e", "a", "r", "c", "h", "-", "b", "o", "t">>,
    <<"s", "c", "a", "n", "z", "e", "c", "h", "r", "e", "s", "e", "a", "r", "c", "h", "b", "o", "t">>,
    <<"g", "p", "t", "b", "o", "t">>,
    <<"c", "h", "a", "t", "g", "p", "t", "-", "u", "s", "e", "r">>,
    <<"c", "l", "a", "u", "d", "e", "b", "o", "t">>,
    <<"c", "l", "a", "u", "d", "e", "-", "w", "e", "b">>,
    <<"a", "n", "t", "h", "r", "o", "p", "i", "c", "-", "a", "i">>,
    <<"g", "o", "o", "g", "l", "e", "-", "e", "x", "t", "e", "n", "d", "e", "d">>
>>

\* str.lower(), on the letters the inputs use
LowerChar(ch) ==
    CASE ch = "G" -> "g"
      [] ch = "P" -> "p"
      [] ch = "T" -> "t"
      [] ch = "B" -> "b"
      [] OTHER -> ch

Lower(s) == [i \in 1..Len(s) |-> LowerChar(s[i])]

\* a in b, for strings
IsSubstring(a, b) ==
    \E i \in 0..(Len(b) - Len(a)) : SubSeq(b, i + 1, i + Len(a)) = a

\* The lines a robots.txt is made of.  A comment line matches ^\s*#\s*(.*) and
\* carries its body; a directive line carries the text before and after its
\* first colon, both stripped.
CommentLine(body) == [kind |-> "comment", name |-> "", value |-> body]

DirectiveLine(name, value) == [kind |-> "directive", name |-> name, value |-> value]

UserAgentValues == {<<"G", "P", "T", "B", "o", "t">>, <<"*">>, << >>, <<"b", "o", "t">>}

DisallowValues == {<< >>, <<"/">>, <<"/", "a">>, <<"/", "*">>}

AllowValues == {<<"/">>, <<"/", "a">>, <<"/", "$">>}

CommentBodies == {"ai-input: no", "ai-input: yes", "AI-Input: No", "note"}

Lines ==
    {DirectiveLine("User-agent", v) : v \in UserAgentValues}
    \cup {DirectiveLine("Disallow", v) : v \in DisallowValues}
    \cup {DirectiveLine("Allow", v) : v \in AllowValues}
    \cup {CommentLine(b) : b \in CommentBodies}

\* The URL paths asked about.
Paths == {<<"/">>, <<"/", "a">>, <<"/", "b">>}

\* hint = comment_match.group(1).strip().lower(), split at its first colon when
\* it starts with ai-input: or ai-train:
Hint(body) ==
    CASE body = "ai-input: no" -> [key |-> "ai-input", val |-> "no"]
      [] body = "AI-Input: No" -> [key |-> "ai-input", val |-> "no"]
      [] body = "ai-input: yes" -> [key |-> "ai-input", val |-> "yes"]
      [] body = "ai-train: no" -> [key |-> "ai-train", val |-> "no"]
      [] body = "ai-train: yes" -> [key |-> "ai-train", val |-> "yes"]
      [] OTHER -> [key |-> "", val |-> ""]

\* directive.strip().lower()
LowerName(name) ==
    CASE name = "User-agent" -> "user-agent"
      [] name = "Disallow" -> "disallow"
      [] name = "Allow" -> "allow"
      [] name = "Crawl-delay" -> "crawl-delay"
      [] OTHER -> name

\* The tri-state hints: None, True, False.
HintValue(val) == IF val = "yes" THEN "yes" ELSE "no"

RobotsRule(path, allowed) == [path |-> path, allowed |-> allowed]

\* An optional value: None is the empty sequence, a value x is <<x>>.
None == << >>

Some(x) == <<x>>

RobotsGroup(user_agents) ==
    [user_agents |-> user_agents, rules |-> << >>, crawl_delay |-> None]

\* float(value) of a Crawl-delay line, in whole seconds; None for ValueError.
ParseFloat(value) ==
    CASE value = "0" -> Some(0)
      [] value = "5" -> Some(5)
      [] value = "20" -> Some(20)
      [] OTHER -> None

\* The parser before its first line: no group, current_group None, in_rules False.
ParserStart ==
    [groups |-> << >>, has_group |-> FALSE, in_rules |-> FALSE,
     ai_input |-> "unset", ai_train |-> "unset"]

\* current_group is the last group of result.groups whenever it is not None.
AddRule(st, rule) ==
    LET groups == IF st.has_group THEN st.groups
                  ELSE Append(st.groups, RobotsGroup(<<(<<"*">>)>>))
        n == Len(groups)
    IN  [st EXCEPT !.groups = [groups EXCEPT ![n].rules = Append(@, rule)],
                   !.has_group = TRUE,
                   !.in_rules = TRUE]

AddUserAgent(st, value) ==
    LET groups == IF st.in_rules \/ ~st.has_group
                  THEN Append(st.groups, RobotsGroup(<< >>))
                  ELSE st.groups
        n == Len(groups)
    IN  [st EXCEPT !.groups = [groups EXCEPT ![n].user_agents = Append(@, Lower(value))],
                   !.has_group = TRUE,
                   !.in_rules = FALSE]

\* A Crawl-delay line: the delay of the current group, in_rules as it was; a
\* value float() rejects changes nothing but the implicit group it may create.
SetCrawlDelay(st, value) ==
    LET groups == IF st.has_group THEN st.groups
                  ELSE Append(st.groups, RobotsGroup(<<(<<"*">>)>>))
        n == Len(groups)
    IN  [st EXCEPT !.groups = IF ParseFloat(value) = None THEN groups
                              ELSE [groups EXCEPT ![n].crawl_delay = ParseFloat(value)],
                   !.has_group = TRUE]

\* The body of the loop of parse_robots_txt for one line.
ParseLine(st, line) ==
    IF line.kind = "comment" THEN
        LET hint == Hint(line.value)
        IN  IF hint.key = "ai-input" THEN [st EXCEPT !.ai_input = HintValue(hint.val)]
            ELSE IF hint.key = "ai-train" THEN [st EXCEPT !.ai_train = HintValue(hint.val)]
            ELSE st
    ELSE IF LowerName(line.name) = "user-agent" THEN AddUserAgent(st, line.value)
    ELSE IF LowerName(line.name) = "disallow" THEN AddRule(st, RobotsRule(line.value, FALSE))
    ELSE IF LowerName(line.name) = "allow" THEN AddRule(st, RobotsRule(line.value, TRUE))
    ELSE IF LowerName(line.name) = "crawl-delay" THEN SetCrawlDelay(st, line.value)
    ELSE st

RECURSIVE ParseLines(_, _)
ParseLines(st, content) ==
    IF content = << >> THEN st
    ELSE ParseLines(ParseLine(st, Head(content)), Tail(content))

\* parse_robots_txt(content)
ParseRobotsTxt(content) ==
    LET st == ParseLines(ParserStart, content)
    IN  [groups |-> st.groups, ai_input |-> st.ai_input, ai_train |-> st.ai_train]

\* _ua_matches(group_ua, target_ua)
UaMatches(group_ua, target_ua) ==
    IF group_ua = <<"*">> THEN TRUE ELSE IsSubstring(group_ua, target_ua)

\* The loops of _find_matching_group from group g, user-agent k on:
\* m = [best_match, best_match_len, wildcard_group], groups by their index, 0 for None.
RECURSIVE FindLoop(_, _, _, _, _)
FindLoop(groups, ua_lower, g, k, m) ==
    IF g > Len(groups) THEN m
    ELSE IF k > Len(groups[g].user_agents) THEN FindLoop(groups, ua_lower, g + 1, 1, m)
    ELSE LET group_ua == groups[g].user_agents[k]
         IN  IF group_ua = <<"*">>
             THEN FindLoop(groups, ua_lower, g, k + 1, [m EXCEPT !.wildcard_group = g])
             ELSE IF UaMatches(group_ua, ua_lower) /\ Len(group_ua) > m.best_match_len
             THEN FindLoop(groups, ua_lower, g, k + 1,
                           [m EXCEPT !.best_match = g, !.best_match_len = Len(group_ua)])
             ELSE FindLoop(groups, ua_lower, g, k + 1, m)

\* _find_matching_group returning wildcard_group or best_match
FindMatchingGroupWildcardFirst(parsed, user_agent) ==
    LET m == FindLoop(parsed.groups, Lower(user_agent), 1, 1,
                      [best_match |-> 0, best_match_len |-> 0, wildcard_group |-> 0])
    IN  IF m.wildcard_group # 0 THEN m.wildcard_group ELSE m.best_match

\* _find_matching_group(parsed, user_agent): the index of the group, 0 for None
FindMatchingGroup(parsed, user_agent) ==
    LET m == FindLoop(parsed.groups, Lower(user_agent), 1, 1,
                      [best_match |-> 0, best_match_len |-> 0, wildcard_group |-> 0])
    IN  IF m.best_match # 0 THEN m.best_match ELSE m.wildcard_group

\* re.match of the pattern built from rule_path: * is .*, a final $ anchors the
\* end, any other end is followed by .*
RECURSIVE PatternMatches(_, _)
PatternMatches(pattern, text) ==
    IF pattern = << >> THEN TRUE
    ELSE IF pattern = <<"$">> THEN text = << >>
    ELSE IF Head(pattern) = "*"
         THEN \E k \in 0..Len(text) :
                 PatternMatches(Tail(pattern), SubSeq(text, k + 1, Len(text)))
    ELSE /\ text # << >>
         /\ Head(text) = Head(pattern)
         /\ PatternMatches(Tail(pattern), Tail(text))

\* _path_matches(rule_path, url_path)
PathMatches(rule_path, url_path) ==
    IF rule_path = << >> THEN FALSE ELSE PatternMatches(rule_path, url_path)

\* The rule loop of is_path_allowed from rule i on: best = [rule, len], the rule
\* by its index, 0 for None.
RECURSIVE BestRuleLoop(_, _, _, _)
BestRuleLoop(rules, path, i, best) ==
    IF i > Len(rules) THEN best.rule
    ELSE IF PathMatches(rules[i].path, path) /\ Len(rules[i].path) > best.len
         THEN BestRuleLoop(rules, path, i + 1, [rule |-> i, len |-> Len(rules[i].path)])
         ELSE BestRuleLoop(rules, path, i + 1, best)

BestRule(rules, path) == BestRuleLoop(rules, path, 1, [rule |-> 0, len |-> -1])

\* One round of the loop of is_path_allowed: the round returns False.
BlockedFor(parsed, ua, path) ==
    LET g == FindMatchingGroup(parsed, ua)
    IN  /\ g # 0
        /\ parsed.groups[g].rules # << >>
        /\ LET best_rule == BestRule(parsed.groups[g].rules, path)
           IN  best_rule # 0 /\ ~parsed.groups[g].rules[best_rule].allowed

\* is_path_allowed(parsed, path)
IsPathAllowed(parsed, path) ==
    IF \E i \in 1..Len(WATCHED_USER_AGENTS) : BlockedFor(parsed, WATCHED_USER_AGENTS[i], path)
    THEN FALSE
    ELSE IF parsed.ai_input = "no" THEN FALSE
    ELSE TRUE

\* The loop of get_crawl_delay from watched agent i on.
RECURSIVE CrawlDelayLoop(_, _, _)
CrawlDelayLoop(parsed, i, max_delay) ==
    IF i > Len(WATCHED_USER_AGENTS) THEN max_delay
    ELSE LET g == FindMatchingGroup(parsed, WATCHED_USER_AGENTS[i])
         IN  IF g # 0 /\ parsed.groups[g].crawl_delay # None
             THEN IF max_delay = None \/ parsed.groups[g].crawl_delay[1] > max_delay[1]
                  THEN CrawlDelayLoop(parsed, i + 1, parsed.groups[g].crawl_delay)
                  ELSE CrawlDelayLoop(parsed, i + 1, max_delay)
             ELSE CrawlDelayLoop(parsed, i + 1, max_delay)

\* get_crawl_delay keeping the first delay it finds
GetFirstCrawlDelay(parsed) ==
    LET found == {i \in 1..Len(WATCHED_USER_AGENTS) :
                    LET g == FindMatchingGroup(parsed, WATCHED_USER_AGENTS[i])
                    IN  g # 0 /\ parsed.groups[g].crawl_delay # None}
    IN  IF found = {} THEN None
        ELSE LET i == CHOOSE i \in found : \A j \in found : i <= j
             IN  parsed.groups[FindMatchingGroup(parsed, WATCHED_USER_AGENTS[i])].crawl_delay

\* get_crawl_delay(parsed)
GetCrawlDelay(parsed) == CrawlDelayLoop(parsed, 1, None)

\* ai_uas of _is_ai_blocked: the watched agents but the system's own two.
AiUserAgents == SubSeq(WATCHED_USER_AGENTS, 3, Len(WATCHED_USER_AGENTS))

\* _is_ai_blocked(parsed)
IsAiBlocked(parsed) ==
    \/ parsed.ai_input = "no"
    \/ \E i \in 1..Len(AiUserAgents) :
          LET g == FindMatchingGroup(parsed, AiUserAgents[i])
          IN  /\ g # 0
              /\ \E r \in 1..Len(parsed.groups[g].rules) :
                    parsed.groups[g].rules[r] = RobotsRule(<<"/">>, FALSE)

\* json.dumps / json.loads of the tri-state hints: None, True, False.
HintToJson(hint) ==
    CASE hint = "yes" -> "true"
      [] hint = "no" -> "false"
      [] OTHER -> "null"

HintFromJson(json) ==
    CASE json = "true" -> "yes"
      [] json = "false" -> "no"
      [] OTHER -> "unset"

\* _serialize_parsed(parsed): the JSON document, objects as tuples in key order.
SerializeParsed(parsed) ==
    << [g \in 1..Len(parsed.groups) |->
           << parsed.groups[g].user_agents,
              [r \in 1..Len(parsed.groups[g].rules) |->
                  << parsed.groups[g].rules[r].path,
                     IF parsed.groups[g].rules[r].allowed THEN "true" ELSE "false" >>],
              parsed.groups[g].crawl_delay >>],
       HintToJson(parsed.ai_input),
       HintToJson(parsed.ai_train) >>

\* _deserialize_parsed(json_str)
DeserializeParsed(json) ==
    [groups |-> [g \in 1..Len(json[1]) |->
                    [user_agents |-> json[1][g][1],
                     rules |-> [r \in 1..Len(json[1][g][2]) |->
                                  RobotsRule(json[1][g][2][r][1], json[1][g][2][r][2] = "true")],
                     crawl_delay |-> json[1][g][3]]],
     ai_input |-> HintFromJson(json[2]),
     ai_train |-> HintFromJson(json[3])]

NoParsed == [groups |-> << >>, ai_input |-> "unparsed", ai_train |-> "unparsed"]

NoQuery == [call |-> "none", arg |-> << >>, result |-> 0]

RobotsInit ==
    /\ robots_content = << >>
    /\ robots_parsed = NoParsed
    /\ robots_query = NoQuery

\* One more line of the file the site serves.
RobotsWrite(line) ==
    /\ robots_parsed = NoParsed
    /\ Len(robots_content) < MaxLines
    /\ robots_content' = Append(robots_content, line)
    /\ UNCHANGED <<robots_parsed, robots_query>>
    /\ UNCHANGED <<clock, memoryVars, redisVars, webVars, pipelineVars, chatVars>>

\* parse_robots_txt(content)
RobotsParse ==
    /\ robots_parsed = NoParsed
    /\ robots_parsed' = ParseRobotsTxt(robots_content)
    /\ UNCHANGED <<robots_content, robots_query>>
    /\ UNCHANGED <<clock, memoryVars, redisVars, webVars, pipelineVars, chatVars>>

\* is_path_allowed(parsed, path), the one call made on the parsed file
RobotsIsPathAllowed(path) ==
    /\ robots_parsed # NoParsed
    /\ robots_query = NoQuery
    /\ robots_query' = [call |-> "is_path_allowed", arg |-> path,
                        result |-> IF IsPathAllowed(robots_parsed, path) THEN 1 ELSE 0]
    /\ UNCHANGED <<robots_content, robots_parsed>>
    /\ UNCHANGED <<clock, memoryVars, redisVars, webVars, pipelineVars, chatVars>>

\* _find_matching_group(parsed, user_agent), the one call made on the parsed file
RobotsFindMatchingGroup(ua) ==
    /\ robots_parsed # NoParsed
    /\ robots_query = NoQuery
    /\ robots_query' = [call |-> "_find_matching_group", arg |-> ua,
                        result |-> FindMatchingGroup(robots_parsed, ua)]
    /\ UNCHANGED <<robots_content, robots_parsed>>
    /\ UNCHANGED <<clock, memoryVars, redisVars, webVars, pipelineVars, chatVars>>

RobotsNext ==
    \/ \E line \in Lines : RobotsWrite(line)
    \/ RobotsParse
    \/ \E path \in Paths : RobotsIsPathAllowed(path)
    \/ \E i \in 1..Len(WATCHED_USER_AGENTS) : RobotsFindMatchingGroup(WATCHED_USER_AGENTS[i])

(***************************************************************************)
(* robots.py: the database-backed cache, get_robots_rules and              *)
(* check_url_allowed.  Every caller works on the same table: a flushed row *)
(* is what the next SELECT finds, and the unique constraint on domain      *)
(* (uq_robots_txt_cache_domain) rejects a second INSERT for a domain.      *)
(***************************************************************************)

Checkers == 1..NumCheckers

\* _RECHECK_INTERVAL, in hours
RecheckInterval == 24

\* The delay check_url_allowed returns when no Crawl-delay is stored.
DefaultCrawlDelay == 10

\* How far the wall clock moves in one step of the model, in hours.
HourSteps == {12}

\* The URLs asked about, as urlparse splits them: hostname (lowercased) and path.
Url(hostname, path) == [hostname |-> hostname, path |-> path]

CheckedUrls ==
    {Url("a.test", <<"/", "a">>), Url("b.test", << >>), Url("", <<"/", "a">>)}

\* The robots.txt files a site serves.
ServedFiles ==
    { << DirectiveLine("User-agent", <<"G", "P", "T", "B", "o", "t">>),
         DirectiveLine("Disallow", <<"/", "a">>) >>,
      << DirectiveLine("User-agent", <<"b", "o", "t">>),
         DirectiveLine("Crawl-delay", "5"),
         DirectiveLine("Disallow", << >>),
         DirectiveLine("User-agent", <<"G", "P", "T", "B", "o", "t">>),
         DirectiveLine("Crawl-delay", "20") >>,
      << DirectiveLine("User-agent", <<"*">>),
         DirectiveLine("Crawl-delay", "0"),
         DirectiveLine("Crawl-delay", "soon") >> }

\* What client.get(https://<domain>/robots.txt) comes to: a response with its
\* status and body, or httpx.RequestError (status 0).
HttpResponse(status_code, body) == [status_code |-> status_code, body |-> body]

RobotsResponses ==
    {HttpResponse(200, f) : f \in ServedFiles}
    \cup {HttpResponse(404, << CommentLine("ai-input: no") >>),
          HttpResponse(0, << >>)}

\* _fetch_robots_txt returning the body whatever the status
FetchRobotsTxtAnyStatus(resp) == resp.body

\* _fetch_robots_txt(domain), given what the GET came to
FetchRobotsTxt(resp) == IF resp.status_code = 200 THEN resp.body ELSE << >>

\* A RobotsTxtCache row; written_by is the caller that wrote it last (history).
RobotsTxtCache(domain, raw_content, rules_json, crawl_delay, ai_blocked, now, writer) ==
    [domain |-> domain, raw_content |-> raw_content, rules_json |-> rules_json,
     crawl_delay |-> crawl_delay, ai_blocked |-> ai_blocked,
     fetched_at |-> now, next_check_at |-> now + RecheckInterval,
     written_by |-> writer]

\* select(RobotsTxtCache).where(domain == domain), scalar_one_or_none(): the
\* index of the row, 0 for None.
SelectRow(table, domain) ==
    IF \E i \in 1..Len(table) : table[i].domain = domain
    THEN CHOOSE i \in 1..Len(table) : table[i].domain = domain
    ELSE 0

\* The freshness test comparing fetched_at instead of next_check_at
IsFreshByFetchedAt(table, cached, now) == cached # 0 /\ table[cached].fetched_at > now

\* cached is not None and cached.next_check_at > now
IsFresh(table, cached, now) == cached # 0 /\ table[cached].next_check_at > now

\* cached.crawl_delay if cached.crawl_delay is not None else 10.0
DelayOrDefault(crawl_delay) ==
    IF crawl_delay = None THEN DefaultCrawlDelay ELSE crawl_delay[1]

\* path = parsed_url.path or "/"
PathOrRoot(url) == IF url.path = << >> THEN <<"/">> ELSE url.path

NoRow == RobotsTxtCache("", << >>, << >>, None, FALSE, 0, 0)

\* A call's locals and history: now, cached (a row index) and the caller that
\* wrote that row, what the GET came to, the row it replaced, the calls that
\* had returned when it began, and the (allowed, delay) and parsed rules it
\* returned.
NoCall ==
    [url |-> Url("", << >>), now |-> 0, cached |-> 0, source |-> 0, fetches |-> 0,
     resp |-> HttpResponse(0, << >>), replaced |-> NoRow, after |-> {},
     allowed |-> FALSE, delay |-> 0, parsed |-> NoParsed]

RobotsCacheInit ==
    /\ robots_txt_cache = << >>
    /\ utc_hours = 0
    /\ cpc = [c \in Checkers |-> "idle"]
    /\ ccall = [c \in Checkers |-> NoCall]

\* Time passes.
HoursPass(d) ==
    /\ utc_hours + d <= MaxHours
    /\ utc_hours' = utc_hours + d
    /\ UNCHANGED <<robots_txt_cache, cpc, ccall>>
    /\ UNCHANGED <<classify_call, clock, memoryVars, redisVars, robotsVars, cacheVars, fetchVars, pipelineVars,
                   chatVars>>

\* check_url_allowed(url) up to the first await that leaves the process for
\* the network: no hostname, a fresh row, or the GET of robots.txt under way.
\* Callers are numbered in the order in which they begin.
CheckUrlAllowed(c, url) ==
    /\ cpc[c] = "idle"
    /\ \A o \in Checkers : o < c => cpc[o] # "idle"
    /\ LET call == [NoCall EXCEPT !.url = url, !.now = utc_hours,
                                  !.after = {o \in Checkers : cpc[o] = "returned"}]
           cached == SelectRow(robots_txt_cache, url.hostname)
       IN  IF url.hostname = "" THEN
               /\ cpc' = [cpc EXCEPT ![c] = "returned"]
               /\ ccall' = [ccall EXCEPT ![c] =
                               [call EXCEPT !.allowed = FALSE, !.delay = DefaultCrawlDelay]]
           ELSE IF IsFresh(robots_txt_cache, cached, utc_hours) THEN
               LET parsed == DeserializeParsed(robots_txt_cache[cached].rules_json)
               IN  /\ cpc' = [cpc EXCEPT ![c] = "returned"]
                   /\ ccall' = [ccall EXCEPT ![c] =
                         [call EXCEPT !.cached = cached,
                                      !.source = robots_txt_cache[cached].written_by,
                                      !.parsed = parsed,
                                      !.allowed = IsPathAllowed(parsed, PathOrRoot(url)),
                                      !.delay = DelayOrDefault(
                                                   robots_txt_cache[cached].crawl_delay)]]
           ELSE
               /\ cpc' = [cpc EXCEPT ![c] = "fetching"]
               /\ ccall' = [ccall EXCEPT ![c] =
                     [call EXCEPT !.cached = cached,
                                  !.source = IF cached = 0 THEN 0
                                             ELSE robots_txt_cache[cached].written_by]]
    /\ UNCHANGED <<robots_txt_cache, utc_hours>>
    /\ UNCHANGED <<classify_call, clock, memoryVars, redisVars, robotsVars, cacheVars, fetchVars, pipelineVars,
                   chatVars>>

\* The GET of robots.txt ends: parse, then update the row found or add a new
\* one, and flush.  The INSERT of a domain that has a row by now raises
\* IntegrityError out of get_robots_rules and check_url_allowed.
RobotsFetched(c, resp) ==
    /\ cpc[c] = "fetching"
    /\ \E parsed \in {ParseRobotsTxt(FetchRobotsTxt(resp))} :
       \E crawl_delay \in {GetCrawlDelay(parsed)} :
       LET call == ccall[c]
           row == RobotsTxtCache(call.url.hostname, FetchRobotsTxt(resp),
                                 SerializeParsed(parsed), crawl_delay, IsAiBlocked(parsed),
                                 call.now, c)
           done == [call EXCEPT !.fetches = 1,
                                !.resp = resp,
                                !.parsed = parsed,
                                !.allowed = IsPathAllowed(parsed, PathOrRoot(call.url)),
                                !.delay = DelayOrDefault(crawl_delay)]
       IN  IF call.cached # 0 THEN
               /\ robots_txt_cache' = [robots_txt_cache EXCEPT ![call.cached] = row]
               /\ cpc' = [cpc EXCEPT ![c] = "returned"]
               /\ ccall' = [ccall EXCEPT ![c] =
                               [done EXCEPT !.replaced = robots_txt_cache[call.cached]]]
           ELSE IF SelectRow(robots_txt_cache, call.url.hostname) # 0 THEN
               /\ cpc' = [cpc EXCEPT ![c] = "raised"]
               /\ ccall' = [ccall EXCEPT ![c] = [call EXCEPT !.fetches = 1, !.resp = resp]]
               /\ UNCHANGED robots_txt_cache
           ELSE
               /\ robots_txt_cache' = Append(robots_txt_cache, row)
               /\ cpc' = [cpc EXCEPT ![c] = "returned"]
               /\ ccall' = [ccall EXCEPT ![c] = done]
    /\ UNCHANGED utc_hours
    /\ UNCHANGED <<classify_call, clock, memoryVars, redisVars, robotsVars, cacheVars, fetchVars, pipelineVars,
                   chatVars>>

RobotsCacheNext ==
    \/ \E d \in HourSteps : HoursPass(d)
    \/ \E c \in Checkers, url \in CheckedUrls : CheckUrlAllowed(c, url)
    \/ \E c \in Checkers, resp \in RobotsResponses : RobotsFetched(c, resp)

(***************************************************************************)
(* domain_throttle.py: the response cache: _parse_cache_ttl,               *)
(* get_cached_response, cache_response.                                    *)
(***************************************************************************)

\* _DEFAULT_CACHE_TTL_SECONDS
DefaultCacheTtl == 86400

\* The cap of the cached text, text[:500_000].
MaxCachedChars == 500000

\* How far the wall clock moves in one step of the model, in seconds.
SecondSteps == {30}

\* The comma-separated parts of a Cache-Control header, as sent.
Directives ==
    {"no-cache", "No-Store", "max-age=60", "max-age=0", "max-age=-5", "MAX-AGE=30",
     "max-age=soon", "public"}

\* "no-cache" in part.lower() or "no-store" in part.lower()
HasNoCache(part) == part \in {"no-cache", "No-Store"}

\* part.strip().lower().startswith("max-age=")
IsMaxAge(part) ==
    part \in {"max-age=60", "max-age=0", "max-age=-5", "MAX-AGE=30", "max-age=soon"}

\* int(part.split("=", 1)[1]); None for ValueError
MaxAgeValue(part) ==
    CASE part = "max-age=60" -> Some(60)
      [] part = "max-age=0" -> Some(0)
      [] part = "max-age=-5" -> Some(-5)
      [] part = "MAX-AGE=30" -> Some(30)
      [] OTHER -> None

\* The Expires header: absent, a date with its time in seconds, a date without
\* a zone (a naive datetime: the subtraction raises TypeError), or no date at all
\* (parsedate_to_datetime raises ValueError).
ExpiresValues ==
    {[kind |-> "absent", at |-> 0], [kind |-> "date", at |-> 0], [kind |-> "date", at |-> 60],
     [kind |-> "naive", at |-> 60], [kind |-> "garbage", at |-> 0]}

RECURSIVE SeqsUpTo(_, _)
SeqsUpTo(S, n) ==
    IF n = 0 THEN {<< >>}
    ELSE SeqsUpTo(S, n - 1) \cup {Append(s, x) : s \in SeqsUpTo(S, n - 1), x \in S}

\* The response headers, keys lowercased as dict(resp.headers) has them.
Headers(cache_control, expires) == [cache_control |-> cache_control, expires |-> expires]

AllHeaders ==
    {Headers(cc, e) : cc \in SeqsUpTo(Directives, MaxDirectives), e \in ExpiresValues}

Max(a, b) == IF a >= b THEN a ELSE b

\* The max-age loop of _parse_cache_ttl from part i on: the value returned,
\* None when the loop ends without a return.
RECURSIVE MaxAgeLoop(_, _)
MaxAgeLoop(parts, i) ==
    IF i > Len(parts) THEN None
    ELSE IF IsMaxAge(parts[i]) /\ MaxAgeValue(parts[i]) # None
         THEN Some(Max(0, MaxAgeValue(parts[i])[1]))
         ELSE MaxAgeLoop(parts, i + 1)

\* _parse_cache_ttl looking for max-age before no-cache / no-store
ParseCacheTtlMaxAgeFirst(headers, now) ==
    IF MaxAgeLoop(headers.cache_control, 1) # None
    THEN MaxAgeLoop(headers.cache_control, 1)[1]
    ELSE IF \E i \in 1..Len(headers.cache_control) : HasNoCache(headers.cache_control[i])
    THEN 0
    ELSE IF headers.expires.kind = "date" THEN Max(0, headers.expires.at - now)
    ELSE DefaultCacheTtl

\* _parse_cache_ttl(headers), with datetime.now() = now
ParseCacheTtl(headers, now) ==
    IF \E i \in 1..Len(headers.cache_control) : HasNoCache(headers.cache_control[i])
    THEN 0
    ELSE IF MaxAgeLoop(headers.cache_control, 1) # None
    THEN MaxAgeLoop(headers.cache_control, 1)[1]
    ELSE IF headers.expires.kind = "date" THEN Max(0, headers.expires.at - now)
    ELSE DefaultCacheTtl

\* A text: the first len characters of a document.
Text(doc, len) == [doc |-> doc, len |-> len]

\* text, whatever its length
TruncateNothing(text, n) == text

\* text[:n]
Truncate(text, n) == IF text.len > n THEN [text EXCEPT !.len = n] ELSE text

CachedUrls == {"https://x.test/a", "https://x.test/b"}

CachedTexts == {Text("doc", 500001), Text("other", 3)}

CachedContentTypes == {"text/html"}

\* The headers of the responses that get cached.
ResponseHeaders ==
    {Headers(<<"max-age=60">>, [kind |-> "absent", at |-> 0]),
     Headers(<<"max-age=60", "no-cache">>, [kind |-> "absent", at |-> 0]),
     Headers(<< >>, [kind |-> "absent", at |-> 0])}

\* redis_url: no KV store, or the one the process is configured with.
RedisUrls == {"", "redis://kv"}

\* _cache_key(url): the hash is the URL itself, distinct URLs have distinct keys.
CacheKey(url) == <<"scan:cache:", url>>

CacheKeys == {CacheKey(url) : url \in CachedUrls}

\* json.dumps of the cached dict, as the values in key order.
DumpResponse(status_code, content_type, text) == <<status_code, content_type, text>>

\* json.loads of it
LoadResponse(data) == [status_code |-> data[1], content_type |-> data[2], text |-> data[3]]

\* A key of the store: its value and the time Redis drops it (SET key data EX ttl).
KvEntry(data, now, ttl) == [data |-> data, expires_at |-> now + ttl]

\* r.get(key): None for a key never set or past its expiry
KvGet(store, key, now) ==
    IF store[key] # None /\ now < store[key][1].expires_at THEN Some(store[key][1].data)
    ELSE None

\* The store after cache_response(url, status_code, headers, text, content_type,
\* redis_url) at time now.
CacheResponseStore(store, url, status_code, headers, text, content_type, redis_url, now) ==
    IF redis_url = "" THEN store
    ELSE IF ParseCacheTtl(headers, now) <= 0 THEN store
    ELSE [store EXCEPT ![CacheKey(url)] =
             Some(KvEntry(DumpResponse(status_code, content_type,
                                       Truncate(text, MaxCachedChars)),
                          now, ParseCacheTtl(headers, now)))]

\* The cached dict get_cached_response(url, redis_url) returns at time now, or None.
CachedResponse(store, url, redis_url, now) ==
    IF redis_url = "" \/ KvGet(store, CacheKey(url), now) = None THEN None
    ELSE Some(LoadResponse(KvGet(store, CacheKey(url), now)[1]))

NoTtlCall == [headers |-> Headers(<< >>, [kind |-> "absent", at |-> 0]), now |-> 0, ttl |-> -1]

CacheArgs(url, status_code, text, content_type) ==
    [url |-> url, status_code |-> status_code, text |-> text, content_type |-> content_type]

NoCacheCall ==
    [op |-> "none", redis_url |-> "", args |-> CacheArgs("", 0, Text("", 0), ""),
     headers |-> Headers(<< >>, [kind |-> "absent", at |-> 0]), ttl |-> 0, now |-> 0,
     before |-> None, stored_before |-> None, result |-> None]

CacheInit ==
    /\ kv_store = [k \in CacheKeys |-> None]
    /\ unix_seconds = 0
    /\ last_stored = [url \in CachedUrls |-> None]
    /\ ttl_call = NoTtlCall
    /\ cache_call = NoCacheCall

\* Time passes.
SecondsPass(d) ==
    /\ unix_seconds + d <= MaxSeconds
    /\ unix_seconds' = unix_seconds + d
    /\ UNCHANGED <<kv_store, last_stored, ttl_call, cache_call>>
    /\ UNCHANGED <<classify_call, clock, memoryVars, redisVars, robotsVars, robotsCacheVars, fetchVars,
                   pipelineVars, chatVars>>

\* _parse_cache_ttl(headers), the one call made on these headers
ParseCacheTtlCall(headers) ==
    /\ ttl_call = NoTtlCall
    /\ ttl_call' = [headers |-> headers, now |-> unix_seconds,
                    ttl |-> ParseCacheTtl(headers, unix_seconds)]
    /\ UNCHANGED <<kv_store, unix_seconds, last_stored, cache_call>>
    /\ UNCHANGED <<classify_call, clock, memoryVars, redisVars, robotsVars, robotsCacheVars, fetchVars,
                   pipelineVars, chatVars>>

\* cache_response(url, status_code, headers, text, content_type, redis_url)
CacheResponse(url, status_code, headers, text, content_type, redis_url) ==
    LET ttl == ParseCacheTtl(headers, unix_seconds)
        args == CacheArgs(url, status_code, text, content_type)
        call == [NoCacheCall EXCEPT !.op = "cache_response", !.redis_url = redis_url,
                                    !.args = args, !.headers = headers,
                                    !.now = unix_seconds,
                                    !.before = kv_store[CacheKey(url)],
                                    !.stored_before = last_stored[url]]
    IN  /\ kv_store' = CacheResponseStore(kv_store, url, status_code, headers, text,
                                          content_type, redis_url, unix_seconds)
        /\ IF redis_url = "" THEN
               /\ cache_call' = call
               /\ UNCHANGED last_stored
           ELSE IF ttl <= 0 THEN
               /\ cache_call' = [call EXCEPT !.ttl = ttl]
               /\ UNCHANGED last_stored
           ELSE
               /\ cache_call' = [call EXCEPT !.ttl = ttl]
               /\ last_stored' = [last_stored EXCEPT ![url] =
                     Some([args |-> args, now |-> unix_seconds, ttl |-> ttl])]
        /\ UNCHANGED <<unix_seconds, ttl_call>>
        /\ UNCHANGED <<classify_call, clock, memoryVars, redisVars, robotsVars, robotsCacheVars, fetchVars,
                       pipelineVars, chatVars>>

\* get_cached_response(url, redis_url)
GetCachedResponse(url, redis_url) ==
    LET cached == CachedResponse(kv_store, url, redis_url, unix_seconds)
        call == [NoCacheCall EXCEPT !.op = "get_cached_response", !.redis_url = redis_url,
                                    !.args = CacheArgs(url, 0, Text("", 0), ""),
                                    !.now = unix_seconds,
                                    !.before = kv_store[CacheKey(url)],
                                    !.stored_before = last_stored[url]]
    IN  /\ cache_call' = [call EXCEPT !.result = cached]
        /\ UNCHANGED <<kv_store, unix_seconds, last_stored, ttl_call>>
        /\ UNCHANGED <<classify_call, clock, memoryVars, redisVars, robotsVars, robotsCacheVars, fetchVars,
                       pipelineVars, chatVars>>

TtlNext ==
    \/ \E d \in SecondSteps : SecondsPass(d)
    \/ \E headers \in AllHeaders : ParseCacheTtlCall(headers)

CacheNext ==
    \/ \E d \in SecondSteps : SecondsPass(d)
    \/ \E url \in CachedUrls, headers \in ResponseHeaders, text \in CachedTexts,
          content_type \in CachedContentTypes, redis_url \in RedisUrls :
          CacheResponse(url, 200, headers, text, content_type, redis_url)
    \/ \E url \in CachedUrls, redis_url \in RedisUrls : GetCachedResponse(url, redis_url)

(***************************************************************************)
(* scan_agent.py: fetch_and_extract                                        *)
(***************************************************************************)

\* _MAX_DOC_CHARS
MaxDocChars == 200000

\* urlparse(url): the hostname and the path of the URLs fetched.
Urlparse(url) ==
    CASE url = "https://x.test/a" -> Url("x.test", <<"/", "a">>)
      [] url = "https://x.test/b" -> Url("x.test", <<"/", "b">>)
      [] OTHER -> Url("", << >>)

ExtractQueries == {"q", "q2"}

\* The URLs fetch_and_extract is called with directly.
FetchedUrls == {"https://x.test/a"}

\* What check_url_allowed meets: the robots.txt the domain serves or has in the
\* robots cache, or an exception out of get_robots_rules (the database, the
\* IntegrityError of two concurrent inserts).
RobotsEnv(raises, content) == [raises |-> raises, content |-> content]

\* A domain with no robots.txt: get_robots_rules parses "".
NoRobotsTxt == RobotsEnv(FALSE, << >>)

RobotsEnvs ==
    {RobotsEnv(TRUE, << >>),
     NoRobotsTxt,
     RobotsEnv(FALSE, << DirectiveLine("User-agent", <<"G", "P", "T", "B", "o", "t">>),
                         DirectiveLine("Disallow", <<"/", "a">>) >>),
     RobotsEnv(FALSE, << DirectiveLine("Allow", <<"/", "a">>),
                         DirectiveLine("Disallow", <<"/", "a">>) >>),
     RobotsEnv(FALSE, << DirectiveLine("User-agent", <<"G", "P", "T", "B", "o", "t">>),
                         DirectiveLine("Crawl-delay", "5") >>)}

\* What client.get(url) with raise_for_status() comes to: a response,
\* httpx.HTTPStatusError with the status, or httpx.RequestError (a network
\* error, a timeout).
GetResult(kind, status_code, content_type, headers, text) ==
    [kind |-> kind, status_code |-> status_code, content_type |-> content_type,
     headers |-> headers, text |-> text]

NoHeaders == Headers(<< >>, [kind |-> "absent", at |-> 0])

GetResults ==
    {GetResult("response", 200, "text/html", Headers(<<"max-age=60">>, NoHeaders.expires),
               Text("doc", 500001)),
     GetResult("response", 200, "text/html",
               Headers(<<"max-age=60", "no-cache">>, NoHeaders.expires), Text("other", 3)),
     GetResult("response", 200, "text/plain", NoHeaders, Text("other", 3)),
     GetResult("response", 200, "application/pdf", NoHeaders, Text("other", 3)),
     GetResult("response", 200, "image/png", NoHeaders, Text("other", 3)),
     GetResult("response", 200, "application/json", NoHeaders, Text("other", 3)),
     GetResult("HTTPStatusError", 404, "", NoHeaders, Text("", 0)),
     GetResult("RequestError", 0, "", NoHeaders, Text("", 0))}

\* What r.get(key) comes to in get_cached_response: the value of the store,
\* redis.RedisError, or a value that is no JSON (json.JSONDecodeError).
KvReads == {"ok", "RedisError", "JSONDecodeError"}

\* What the awaits of one fetch_and_extract meet: the robots check, the read of
\* the response cache, the rate-limit wait (Redis may fail), the GET, and the
\* extraction agent's run.
FetchEnv(robots, read, wait, get, extract) ==
    [robots |-> robots, read |-> read, wait |-> wait, get |-> get, extract |-> extract]

\* Every robots.txt with a page that is served and extracted; a failing wait;
\* and, where no robots.txt stands in the way, every GET with every extraction.
FetchEnvs ==
    {FetchEnv(robots, "ok", "ok", get, "ok") :
        robots \in RobotsEnvs,
        get \in {g \in GetResults : g.content_type = "text/html"}}
    \cup {FetchEnv(NoRobotsTxt, read, wait, get, "ok") :
             read \in KvReads, wait \in {"ok", "raise"},
             get \in {g \in GetResults : g.content_type = "text/plain"}}
    \cup {FetchEnv(NoRobotsTxt, "ok", "ok", get, extract) :
             get \in GetResults, extract \in {"ok", "raise"}}

\* "html" in content_type
IsHtml(content_type) == content_type = "text/html"

\* content_type.startswith("text/")
IsTextType(content_type) == content_type \in {"text/html", "text/plain"}

\* content_type.startswith("image/")
IsImage(content_type) == content_type = "image/png"

\* The document of a prompt: the body, how it was turned into text, and the cut
\* at _MAX_DOC_CHARS (an image is passed whole).
Document(body, via) ==
    [body |-> body, via |-> via, max_chars |-> IF via = "image" THEN 0 ELSE MaxDocChars]

\* The prompt of the extraction agent.
Prompt(query, document) == [query |-> query, document |-> document]

\* result.output of extraction_agent.run(prompt)
Extracted(prompt) == [kind |-> "extracted", prompt |-> prompt, url |-> "", detail |-> ""]

\* f"Could not fetch {url}: HTTP {status}" / f"Could not fetch {url}: {exc}"
CouldNotFetch(url, detail) ==
    [kind |-> "could_not_fetch", prompt |-> Prompt("", Document(Text("", 0), "")), url |-> url,
     detail |-> detail]

\* f"Unsupported content type: {content_type}"
Unsupported(content_type) ==
    [kind |-> "unsupported", prompt |-> Prompt("", Document(Text("", 0), "")), url |-> "",
     detail |-> content_type]

\* The detail of a failed GET: "HTTP <status>" or the exception's text.
Detail(get) == IF get.kind = "HTTPStatusError" THEN <<"HTTP", get.status_code>>
               ELSE <<"RequestError", 0>>

\* What a call of fetch_and_extract did and came to: the steps it reached, in
\* order; the robots.txt it judged; the delay it waited with; whether it raised
\* and at which step it failed; the value it returned; the store it left; and
\* the TTL of the cacheable body it got (0 when it got none).
NoOutcome ==
    [effects |-> << >>, robots |-> << >>, delay |-> 0, read |-> "ok", raised |-> FALSE,
     failed |-> "none",
     result |-> None, store |-> << >>, got_ttl |-> 0, got_text |-> Text("", 0),
     got_type |-> ""]

\* Lines 396-397 and 349-350: the extraction agent runs on the prompt.
Extraction(out, prompt, env) ==
    IF env.extract = "raise"
    THEN [out EXCEPT !.effects = Append(@, "extract"), !.raised = TRUE, !.failed = "extract"]
    ELSE [out EXCEPT !.effects = Append(@, "extract"), !.result = Some(Extracted(prompt))]

\* Lines 369-397: the response is cached and handed to the extractor by its type.
AfterGet(out, url, query, redis_url, env, now) ==
    LET resp == env.get
        content_type == resp.content_type
        cacheable == IsHtml(content_type) \/ IsTextType(content_type)
        cached == IF cacheable
                  THEN [out EXCEPT !.effects = Append(@, "cache_response"),
                                   !.store = CacheResponseStore(out.store, url, resp.status_code,
                                                                resp.headers, resp.text,
                                                                content_type, redis_url, now),
                                   !.got_ttl = ParseCacheTtl(resp.headers, now),
                                   !.got_text = resp.text,
                                   !.got_type = content_type]
                  ELSE out
    IN  IF content_type = "application/pdf"
        THEN Extraction(cached, Prompt(query, Document(resp.text, "pdf_to_text")), env)
        ELSE IF IsImage(content_type)
        THEN Extraction(cached, Prompt(query, Document(resp.text, "image")), env)
        ELSE IF cacheable
        THEN Extraction(cached,
                        Prompt(query, Document(resp.text,
                                               IF IsHtml(content_type) THEN "html_to_text"
                                               ELSE "text")), env)
        ELSE [cached EXCEPT !.result = Some(Unsupported(content_type))]

\* The return of a get_cached_response: raised, or a value.
Returned(raises, value) == [raised |-> raises, value |-> value]

\* get_cached_response with no except around the read
ReadCachedUncaught(store, url, redis_url, now, read) ==
    IF redis_url = "" THEN Returned(FALSE, None)
    ELSE IF read \in {"RedisError", "JSONDecodeError"} THEN Returned(TRUE, None)
    ELSE Returned(FALSE, CachedResponse(store, url, redis_url, now))

\* get_cached_response(url, redis_url) whose r.get(key) comes to `read`:
\* `except (redis.RedisError, json.JSONDecodeError): pass`, then return None.
ReadCached(store, url, redis_url, now, read) ==
    IF redis_url = "" THEN Returned(FALSE, None)
    ELSE IF read \in {"RedisError", "JSONDecodeError"} THEN Returned(FALSE, None)
    ELSE Returned(FALSE, CachedResponse(store, url, redis_url, now))

\* Lines 341-367: the response cache, the rate limit, the GET.
AfterRobots(out, url, query, redis_url, env, now) ==
    LET lookup == ReadCached(out.store, url, redis_url, now, env.read)
        cached == lookup.value
        read == [out EXCEPT !.effects = Append(@, "get_cached_response"),
                            !.read = IF redis_url = "" THEN "ok" ELSE env.read]
        waited == [read EXCEPT !.effects = Append(@, "wait_for_rate_limit")]
        got == [waited EXCEPT !.effects = Append(@, "get")]
    IN  IF lookup.raised
        THEN [read EXCEPT !.raised = TRUE, !.failed = "get_cached_response"]
        ELSE IF cached # None
        THEN Extraction(read,
                        Prompt(query, Document(cached[1].text,
                                               IF IsHtml(cached[1].content_type)
                                               THEN "html_to_text" ELSE "text")), env)
        ELSE IF redis_url # "" /\ env.wait = "raise"
        THEN [waited EXCEPT !.raised = TRUE, !.failed = "wait"]
        ELSE IF env.get.kind = "HTTPStatusError"
        THEN [got EXCEPT !.failed = "HTTPStatusError",
                         !.result = Some(CouldNotFetch(url, Detail(env.get)))]
        ELSE IF env.get.kind = "RequestError"
        THEN [got EXCEPT !.failed = "RequestError",
                         !.result = Some(CouldNotFetch(url, Detail(env.get)))]
        ELSE AfterGet(got, url, query, redis_url, env, now)

\* fetch_and_extract that asks robots.txt nothing
FetchAndExtractUnchecked(url, query, db_session, redis_url, env, store, now) ==
    AfterRobots([NoOutcome EXCEPT !.store = store, !.delay = DefaultCrawlDelay],
                url, query, redis_url, env, now)

\* fetch_and_extract(url, query, db_session=..., redis_url=...) at time now, on
\* the store, meeting env.  db_session is TRUE for a session, FALSE for None.
FetchAndExtract(url, query, db_session, redis_url, env, store, now) ==
    LET out == [NoOutcome EXCEPT !.store = store]
        parsed == ParseRobotsTxt(env.robots.content)
        checked == [out EXCEPT !.effects = <<"check_url_allowed">>]
    IN  IF ~db_session
        THEN AfterRobots([out EXCEPT !.delay = DefaultCrawlDelay], url, query, redis_url, env,
                         now)
        ELSE IF Urlparse(url).hostname = ""
        THEN checked
        ELSE IF env.robots.raises
        THEN [checked EXCEPT !.raised = TRUE, !.failed = "robots"]
        ELSE IF ~IsPathAllowed(parsed, PathOrRoot(Urlparse(url)))
        THEN [checked EXCEPT !.robots = env.robots.content]
        ELSE AfterRobots([checked EXCEPT !.robots = env.robots.content,
                                         !.delay = DelayOrDefault(GetCrawlDelay(parsed))],
                         url, query, redis_url, env, now)

\* The cacheable body a call got with a TTL above 0, for the history.
Got(out, redis_url, now) ==
    [now |-> now, ttl |-> out.got_ttl, text |-> out.got_text, content_type |-> out.got_type,
     redis_url |-> redis_url]

LastGotAfter(got, url, out, redis_url, now) ==
    IF out.got_ttl > 0 THEN [got EXCEPT ![url] = Some(Got(out, redis_url, now))] ELSE got

\* The last call: its arguments, its time, how many calls there have been, the
\* body last got for its URL before it, whether its extraction was to fail,
\* and what it did.
NoFetchCall ==
    [url |-> "", query |-> "", db_session |-> FALSE, redis_url |-> "", now |-> 0, n |-> 0,
     got_before |-> None, extract |-> "ok", out |-> NoOutcome]

\* The string research returns: which of its four texts, the topic, and the
\* findings it joins or the results it lists.
ToolString(kind, topic, parts) == [kind |-> kind, topic |-> topic, parts |-> parts]

\* f"Source: {url}\n{extracted}"
Finding(url, extracted) == [source |-> url, extracted |-> extracted]

\* results[:3]
FirstThree(results) == SubSeq(results, 1, IF Len(results) < 3 THEN Len(results) ELSE 3)

\* The locals of a call of research, the set ctx.deps.fetched_urls, a log of
\* what each fetch_and_extract of the loop did (history), the value returned,
\* and over the whole run the URLs a fetch was attempted for and those it was
\* attempted for again (history).
NoResearch ==
    [pc |-> "idle", topic |-> "", redis_url |-> "", results |-> << >>, urls |-> << >>,
     i |-> 0, findings |-> << >>, log |-> << >>, fetched_urls |-> {}, returned |-> None,
     attempted |-> {}, refetched |-> {}]

FetchInit ==
    /\ last_got = [url \in CachedUrls |-> None]
    /\ fetch_call = NoFetchCall
    /\ research_tool = NoResearch

\* A call fetch_and_extract(url, query, db_session=..., redis_url=...).
FetchAndExtractCall(url, query, db_session, redis_url, env) ==
    /\ fetch_call.n < MaxFetchCalls
    /\ \E out \in {FetchAndExtract(url, query, db_session, redis_url, env, kv_store,
                                unix_seconds)} :
          /\ fetch_call' = [url |-> url, query |-> query, db_session |-> db_session,
                            redis_url |-> redis_url, now |-> unix_seconds,
                            n |-> fetch_call.n + 1,
                            got_before |-> last_got[url], extract |-> env.extract,
                            out |-> [out EXCEPT !.store = << >>]]
          /\ kv_store' = out.store
          /\ last_got' = LastGotAfter(last_got, url, out, redis_url, unix_seconds)
    /\ UNCHANGED <<unix_seconds, last_stored, ttl_call, cache_call, research_tool>>
    /\ UNCHANGED <<classify_call, clock, memoryVars, redisVars, robotsVars, robotsCacheVars,
                   pipelineVars, chatVars>>

FetchNext ==
    \/ \E d \in SecondSteps : SecondsPass(d)
    \/ \E url \in FetchedUrls, query \in ExtractQueries, db_session \in BOOLEAN,
          redis_url \in RedisUrls, env \in FetchEnvs :
          FetchAndExtractCall(url, query, db_session, redis_url, env)

(***************************************************************************)
(* scan_agent.py: pipeline events                                          *)
(***************************************************************************)
StageEvent(stage) == [kind |-> "stage", val |-> stage, arg |-> ""]
DetailEvent(type, payload) == [kind |-> "detail", val |-> type, arg |-> payload]
TextEvent(text) == [kind |-> "text", val |-> text, arg |-> ""]
DoneEvent == [kind |-> "done", val |-> "", arg |-> ""]
ErrorEvent(error) == [kind |-> "error", val |-> error, arg |-> ""]
ClarificationEvent(questions) == [kind |-> "clarification", val |-> questions, arg |-> ""]

\* A loop that breaks on DoneEvent and ErrorEvent only.
IsTerminalWithoutClarification(ev) == ev.kind \in {"done", "error"}

\* isinstance(event, (DoneEvent, ErrorEvent, ClarificationEvent))
IsTerminal(ev) == ev.kind \in {"done", "error", "clarification"}

NoEvent == [kind |-> "none", val |-> "", arg |-> ""]

\* Inputs of the model: what the user, the LLM and the web can supply.
\* Text is a sequence of tokens; the blank text is << >>.
Queries == {<<"q1">>, <<"q2">>}
Blank == << >>
Contexts == {"", "ctx"}
Topics == {"topic"}
Questions == {"questions"}
Errors == {"boom"}
TextDeltas == <<"t1", "t2", "t3">>
SearchResults == {<< >>, <<"", "u1">>, <<"u1", "u2">>}
FetchOutcomes == {"text", "none", "raise"}

\* max_urls of _pick_top_urls
MaxUrls == 3

\* The keyword parameters of run_research_pipeline(query, brave_api_key, *, ...).
PipelineKeywords == {"db_session", "redis_url", "additional_context"}

\* Python binds a call's arguments when the async generator function is called:
\* a keyword that is no parameter raises TypeError there.
BindsArguments(keywords) == keywords \subseteq PipelineKeywords

\* full_query: the query, then the additional context when there is one.
FullQuery(query, additional_context) ==
    IF additional_context # ""
    THEN query \o <<"Additional context from user: ", additional_context>>
    ELSE query

\* _pick_top_urls(results, already_fetched, max_urls)
RECURSIVE PickTopUrls(_, _, _, _)
PickTopUrls(results, already_fetched, max_urls, urls) ==
    IF results = << >> THEN urls
    ELSE LET r == Head(results)
         IN  IF r # "" /\ r \notin already_fetched
             THEN IF Len(urls) + 1 >= max_urls
                  THEN Append(urls, r)
                  ELSE PickTopUrls(Tail(results), already_fetched, max_urls, Append(urls, r))
             ELSE PickTopUrls(Tail(results), already_fetched, max_urls, urls)

NoTool == [topic |-> "", urls |-> << >>, i |-> 0, findings |-> 0]

NoConsumer == [kind |-> "none", stream |-> 0]

PipelineInit ==
    /\ rpc = "none"
    /\ consumer = NoConsumer
    /\ full_query = << >>
    /\ queue = << >>
    /\ event = NoEvent
    /\ sent_responding = FALSE
    /\ tpc = "none"
    /\ tool = NoTool
    /\ fetched_urls = {}
    /\ toolCalls = 0
    /\ textCount = 0
    /\ written = << >>
    /\ yielded = << >>
    /\ raised = ""
    /\ asked = ""
    /\ activeAfterClose = FALSE

(***************************************************************************)
(* scan.py: generate(), the consumer of the pipeline inside chat_stream    *)
(***************************************************************************)
SSE(ev, data) == [event |-> ev, data |-> data]

AssistantMessage(chat_id, content, events, usage) ==
    [chat_id |-> chat_id, role |-> "assistant", content |-> content,
     events |-> events, usage |-> usage]

UserMessage(chat_id, content) ==
    [chat_id |-> chat_id, role |-> "user", content |-> content,
     events |-> << >>, usage |-> ""]

\* The body of generate()'s loop for one event: the stream record after it.
GenerateOnEvent(st, ev) ==
    IF ev.kind = "stage" THEN
        [st EXCEPT !.accumulated_events = Append(@, ev),
                   !.sse = Append(@, SSE("stage", ev.val))]
    ELSE IF ev.kind = "detail" THEN
        [st EXCEPT !.accumulated_events = Append(@, ev),
                   !.sse = Append(@, SSE("detail", ev.val)),
                   !.usage_data = IF ev.val = "usage" THEN ev.arg ELSE @]
    ELSE IF ev.kind = "text" THEN
        [st EXCEPT !.accumulated_text = Append(@, ev.val),
                   !.sse = Append(@, SSE("text", ev.val))]
    ELSE IF ev.kind = "done" THEN
        [st EXCEPT !.sse = Append(@, SSE("done", ""))]
    ELSE IF ev.kind = "clarification" THEN
        [st EXCEPT !.accumulated_events = Append(@, ev),
                   !.sse = Append(@, SSE("clarification", ev.val))]
    ELSE IF ev.kind = "error" THEN
        [st EXCEPT !.accumulated_events = Append(@, ev),
                   !.sse = Append(@, SSE("error", ev.val))]
    ELSE st

\* The rows generate() commits for one event: the assistant message on DoneEvent.
GenerateRows(st, ev) ==
    IF ev.kind = "done"
    THEN <<AssistantMessage(st.chat, st.accumulated_text,
                            st.accumulated_events, st.usage_data)>>
    ELSE << >>

\* The generator yields ev to whoever iterates it.
Deliver(ev) ==
    /\ yielded' = Append(yielded, ev)
    /\ IF consumer.kind = "sse"
       THEN LET st == streams[consumer.stream]
                 rows == GenerateRows(st, ev)
            IN  /\ streams' = [streams EXCEPT ![consumer.stream] =
                       [GenerateOnEvent(st, ev) EXCEPT !.received = Append(@, ev),
                                                       !.persisted = @ \o rows]]
                /\ messages' = messages \o rows
                /\ created_at' = created_at \o [i \in 1..Len(rows) |-> utcnow]
       ELSE UNCHANGED <<streams, messages, created_at>>
    /\ UNCHANGED <<sessions, utcnow, updated_at, response>>

(***************************************************************************)
(* scan_agent.py: run_research_pipeline, the orchestrator                  *)
(***************************************************************************)

\* A caller other than generate() calls run_research_pipeline(query, key,
\* db_session=..., redis_url=..., additional_context=...).
DirectCall(query, additional_context) ==
    /\ rpc = "none"
    /\ BindsArguments({"db_session", "redis_url", "additional_context"})
    /\ rpc' = "created"
    /\ consumer' = [kind |-> "direct", stream |-> 0]
    /\ full_query' = FullQuery(query, additional_context)
    /\ UNCHANGED <<queue, event, sent_responding, tpc, tool, fetched_urls, toolCalls,
                   textCount, written, yielded, raised, asked, activeAfterClose>>
    /\ UNCHANGED <<throttleVars, chatVars>>

\* First __anext__: the body runs to `yield StageEvent(stage="researching")`.
PipelineStart ==
    /\ rpc = "created"
    /\ queue' = << >>
    /\ fetched_urls' = {}
    /\ Deliver(StageEvent("researching"))
    /\ rpc' = "at_researching"
    /\ UNCHANGED <<consumer, full_query, event, sent_responding, tpc, tool, toolCalls,
                   textCount, written, raised, asked, activeAfterClose>>
    /\ UNCHANGED throttleVars

\* The consumer asks for the next event and the generator resumes after a yield.
PipelineResume ==
    /\ rpc \in {"at_researching", "at_responding", "at_event"}
    /\ IF rpc = "at_researching" THEN
           \* task = asyncio.create_task(_agent_task()); sent_responding = False
           /\ tpc' = "agent"
           /\ sent_responding' = FALSE
           /\ rpc' = "getting"
           /\ UNCHANGED <<yielded, chatVars>>
       ELSE IF rpc = "at_responding" THEN
           \* yield event
           /\ Deliver(event)
           /\ rpc' = "at_event"
           /\ UNCHANGED <<tpc, sent_responding>>
       ELSE
           \* if isinstance(event, (DoneEvent, ErrorEvent, ClarificationEvent)): break
           /\ rpc' = IF IsTerminal(event) THEN "joining" ELSE "getting"
           /\ UNCHANGED <<tpc, sent_responding, yielded, chatVars>>
    /\ UNCHANGED <<consumer, full_query, queue, event, tool, fetched_urls, toolCalls,
                   textCount, written, raised, asked, activeAfterClose>>
    /\ UNCHANGED throttleVars

\* The event `queue.get()` hands to the generator.
QueueGet(q) == Head(q)

\* What is left on the queue after `queue.get()`.
QueueRest(q) == Tail(q)

\* A loop that forgets `sent_responding = True`.
SentRespondingForgotten(ev, sent) == sent

\* `not sent_responding` turns true for good at the first TextEvent.
SentResponding(ev, sent) == sent \/ ev.kind = "text"

\* event = await queue.get(), then the first yield of the loop body.
PipelineGet ==
    /\ rpc = "getting"
    /\ queue # << >>
    /\ LET ev == QueueGet(queue)
       IN  /\ event' = ev
           /\ queue' = QueueRest(queue)
           /\ IF ev.kind = "text" /\ ~sent_responding
              THEN /\ sent_responding' = SentResponding(ev, sent_responding)
                   /\ Deliver(StageEvent("responding"))
                   /\ rpc' = "at_responding"
              ELSE /\ Deliver(ev)
                   /\ rpc' = "at_event"
                   /\ UNCHANGED sent_responding
    /\ UNCHANGED <<consumer, full_query, tpc, tool, fetched_urls, toolCalls, textCount,
                   written, raised, asked, activeAfterClose>>
    /\ UNCHANGED throttleVars

\* `await task` after the loop; the generator is exhausted when the task is done.
PipelineJoin ==
    /\ rpc = "joining"
    /\ tpc = "done"
    /\ rpc' = "finished"
    /\ IF consumer.kind = "sse"
       THEN streams' = [streams EXCEPT ![consumer.stream].gpc = "closed"]
       ELSE UNCHANGED streams
    /\ UNCHANGED <<consumer, full_query, queue, event, sent_responding, tpc, tool,
                   fetched_urls, toolCalls, textCount, written, yielded, raised, asked,
                   activeAfterClose>>
    /\ UNCHANGED <<throttleVars, sessions, messages, utcnow, updated_at, created_at, response>>

\* What closing the generator does to the agent task: the generator holds no
\* try/finally around its yields, so nothing, and the task keeps its position.
TaskAfterClose(position) == position

\* The consumer stops iterating after the stream has begun (client disconnect):
\* the generator is closed where it is suspended.
ConsumerStop ==
    /\ rpc \in {"at_researching", "getting", "at_responding", "at_event", "joining"}
    /\ rpc' = "closed"
    /\ tpc' = TaskAfterClose(tpc)
    /\ IF consumer.kind = "sse"
       THEN streams' = [streams EXCEPT ![consumer.stream].gpc = "aborted"]
       ELSE UNCHANGED streams
    /\ UNCHANGED <<consumer, full_query, queue, event, sent_responding, tool, fetched_urls,
                   toolCalls, textCount, written, yielded, raised, asked, activeAfterClose>>
    /\ UNCHANGED <<throttleVars, sessions, messages, utcnow, updated_at, created_at, response>>

(***************************************************************************)
(* scan_agent.py: _agent_task, the agent run and its tools                 *)
(***************************************************************************)

\* await queue.put(ev): the queue is unbounded, the put never waits.
Put(evs) ==
    /\ queue' = queue \o evs
    /\ written' = written \o evs
    /\ activeAfterClose' = (activeAfterClose \/ rpc = "closed")

\* The agent calls the tool research(topic): the two detail events, then the
\* tool awaits brave_search.
ResearchCall(topic) ==
    /\ tpc = "agent"
    /\ toolCalls < MaxToolCalls
    /\ Put(<<DetailEvent("research", topic), DetailEvent("search", topic)>>)
    /\ tool' = [NoTool EXCEPT !.topic = topic]
    /\ toolCalls' = toolCalls + 1
    /\ tpc' = "searching"
    /\ UNCHANGED <<rpc, consumer, full_query, event, sent_responding, fetched_urls,
                   textCount, yielded, raised, asked>>
    /\ UNCHANGED <<throttleVars, chatVars>>

\* brave_search raises: research returns "Search failed for: <topic>".
ResearchSearchFails ==
    /\ tpc = "searching"
    /\ tpc' = "agent"
    /\ tool' = NoTool
    /\ activeAfterClose' = (activeAfterClose \/ rpc = "closed")
    /\ UNCHANGED <<rpc, consumer, full_query, queue, event, sent_responding, fetched_urls,
                   toolCalls, textCount, written, yielded, raised, asked>>
    /\ UNCHANGED <<throttleVars, chatVars>>

\* The summary of the final `result` detail event.
ResultSummary(findings) == IF findings = 0 THEN "found" ELSE "extracted"

\* brave_search returns: no results, or the URLs picked and the first fetch event.
ResearchSearchReturns(results) ==
    /\ tpc = "searching"
    /\ LET urls == PickTopUrls(results, fetched_urls, MaxUrls, << >>)
       IN  IF results = << >> THEN
               \* return "No search results found for: <topic>"
               /\ tpc' = "agent"
               /\ tool' = NoTool
               /\ activeAfterClose' = (activeAfterClose \/ rpc = "closed")
               /\ UNCHANGED <<queue, written>>
           ELSE IF urls = << >> THEN
               /\ Put(<<DetailEvent("result", ResultSummary(0))>>)
               /\ tpc' = "agent"
               /\ tool' = NoTool
           ELSE
               /\ Put(<<DetailEvent("fetch", urls[1])>>)
               /\ tpc' = "fetching"
               /\ tool' = [tool EXCEPT !.urls = urls, !.i = 1]
    /\ UNCHANGED <<rpc, consumer, full_query, event, sent_responding, fetched_urls,
                   toolCalls, textCount, yielded, raised, asked>>
    /\ UNCHANGED <<throttleVars, chatVars>>

\* fetch_and_extract(url, topic) ends: with text, with None or by raising.
ResearchFetchReturns(outcome) ==
    /\ tpc = "fetching"
    /\ LET url == tool.urls[tool.i]
           findings == IF outcome = "text" THEN tool.findings + 1 ELSE tool.findings
       IN  /\ fetched_urls' = IF outcome = "raise" THEN fetched_urls
                              ELSE fetched_urls \cup {url}
           /\ IF tool.i < Len(tool.urls)
              THEN /\ Put(<<DetailEvent("fetch", tool.urls[tool.i + 1])>>)
                   /\ tool' = [tool EXCEPT !.i = @ + 1, !.findings = findings]
                   /\ tpc' = "fetching"
              ELSE /\ Put(<<DetailEvent("result", ResultSummary(findings))>>)
                   /\ tool' = NoTool
                   /\ tpc' = "agent"
    /\ UNCHANGED <<rpc, consumer, full_query, event, sent_responding, toolCalls,
                   textCount, yielded, raised, asked>>
    /\ UNCHANGED <<throttleVars, chatVars>>

\* An ask_user that returns to the agent instead of raising.
AfterAskUserReturns == "agent"

\* Where the agent task stands after ask_user: `raise _ClarificationNeeded()`
\* leaves the agent run, and _agent_task catches it and returns.
AfterAskUser == "done"

\* The agent calls the tool ask_user(questions).
AskUser(questions) ==
    /\ tpc = "agent"
    /\ Put(<<ClarificationEvent(questions)>>)
    /\ asked' = questions
    /\ tpc' = AfterAskUser
    /\ UNCHANGED <<rpc, consumer, full_query, event, sent_responding, tool, fetched_urls,
                   toolCalls, textCount, yielded, raised>>
    /\ UNCHANGED <<throttleVars, chatVars>>

\* stream.stream_text(delta=True) produces the next delta.
StreamText ==
    /\ tpc = "agent"
    /\ textCount < MaxTexts
    /\ Put(<<TextEvent(TextDeltas[textCount + 1])>>)
    /\ textCount' = textCount + 1
    /\ UNCHANGED <<rpc, consumer, full_query, event, sent_responding, tpc, tool,
                   fetched_urls, toolCalls, yielded, raised, asked>>
    /\ UNCHANGED <<throttleVars, chatVars>>

\* The agent run ends normally: await queue.put(DoneEvent()).
AgentDone ==
    /\ tpc = "agent"
    /\ Put(<<DoneEvent>>)
    /\ tpc' = "done"
    /\ UNCHANGED <<rpc, consumer, full_query, event, sent_responding, tool, fetched_urls,
                   toolCalls, textCount, yielded, raised, asked>>
    /\ UNCHANGED <<throttleVars, chatVars>>

\* An _agent_task that swallows the error like the clarification sentinel.
OnAgentErrorSwallowed(error) == << >>

\* What `except Exception as exc` of _agent_task puts on the queue.
OnAgentError(error) == <<ErrorEvent(error)>>

\* The agent run raises an error other than _ClarificationNeeded.
AgentFails(error) ==
    /\ tpc = "agent"
    /\ Put(OnAgentError(error))
    /\ raised' = error
    /\ tpc' = "done"
    /\ UNCHANGED <<rpc, consumer, full_query, event, sent_responding, tool, fetched_urls,
                   toolCalls, textCount, yielded, asked>>
    /\ UNCHANGED <<throttleVars, chatVars>>

PipelineNext ==
    \/ \E q \in Queries, ctx \in Contexts : DirectCall(q, ctx)
    \/ PipelineStart
    \/ PipelineResume
    \/ PipelineGet
    \/ PipelineJoin
    \/ ConsumerStop
    \/ \E t \in Topics : ResearchCall(t)
    \/ ResearchSearchFails
    \/ \E r \in SearchResults : ResearchSearchReturns(r)
    \/ \E o \in FetchOutcomes : ResearchFetchReturns(o)
    \/ \E qs \in Questions : AskUser(qs)
    \/ StreamText
    \/ AgentDone
    \/ \E e \in Errors : AgentFails(e)


(***************************************************************************)
(* scan.py: the chat store and the endpoints                               *)
(***************************************************************************)
Users == {"alice", "bob"}

\* request.session carries no SESSION_USER_ID
NoUser == "anonymous"

Classifications == {"URL", "SEARCH", "RESEARCH"}

\* What the classifier model may answer; "raise" is a run of classify_agent that fails.
ClassifierOutputs == {"URL", "SEARCH", "RESEARCH", " research", "maybe", "raise"}

\* The characters of the model's answers above.
Chars(output) ==
    CASE output = "URL" -> <<"U", "R", "L">>
      [] output = "SEARCH" -> <<"S", "E", "A", "R", "C", "H">>
      [] output = "RESEARCH" -> <<"R", "E", "S", "E", "A", "R", "C", "H">>
      [] output = " research" -> <<" ", "r", "e", "s", "e", "a", "r", "c", "h">>
      [] output = "maybe" -> <<"m", "a", "y", "b", "e">>
      [] OTHER -> << >>

\* str.isspace() of one character
IsSpace(ch) == ch \in {" ", "\n", "\t"}

\* s.lstrip()
RECURSIVE LStrip(_)
LStrip(s) == IF s # << >> /\ IsSpace(Head(s)) THEN LStrip(Tail(s)) ELSE s

\* s.rstrip()
RECURSIVE RStrip(_)
RStrip(s) ==
    IF s # << >> /\ IsSpace(s[Len(s)]) THEN RStrip(SubSeq(s, 1, Len(s) - 1)) ELSE s

\* s.strip()
Strip(s) == RStrip(LStrip(s))

\* ch.upper()
UpperChar(ch) ==
    CASE ch = "u" -> "U"
      [] ch = "r" -> "R"
      [] ch = "l" -> "L"
      [] ch = "s" -> "S"
      [] ch = "e" -> "E"
      [] ch = "a" -> "A"
      [] ch = "c" -> "C"
      [] ch = "h" -> "H"
      [] ch = "m" -> "M"
      [] ch = "y" -> "Y"
      [] ch = "b" -> "B"
      [] OTHER -> ch

\* s.upper()
Upper(s) == [i \in 1..Len(s) |-> UpperChar(s[i])]

\* classify_query that does not strip the output
ClassifyCharsUnstripped(output) ==
    LET text == Upper(output)
    IN  IF text \notin {Chars(c) : c \in Classifications} THEN "SEARCH"
        ELSE CHOOSE c \in Classifications : Chars(c) = text

\* classify_query(query), given the characters of the model's answer
ClassifyChars(output) ==
    LET text == Upper(Strip(output))
    IN  IF text \notin {Chars(c) : c \in Classifications} THEN "SEARCH"
        ELSE CHOOSE c \in Classifications : Chars(c) = text

\* classify_query(query), given the model's answer
ClassifyQuery(output) == ClassifyChars(Chars(output))

\* The time that passes between two reads of the clock within one handler.
Elapsed == {0, 1}

ChatIds == 1..MaxChats

StreamIds == 1..MaxStreams

NoStream ==
    [user |-> NoUser, chat |-> 0, context |-> "", resp |-> "none", gpc |-> "unused",
     query |-> << >>, history |-> << >>,
     accumulated_text |-> << >>, accumulated_events |-> << >>, usage_data |-> "",
     sse |-> << >>, ran |-> FALSE, prompt |-> << >>,
     received |-> << >>, persisted |-> << >>,
     pendingAtRequest |-> FALSE, rowsBefore |-> 0, rowsAfter |-> 0]

NoResponse ==
    [op |-> "none", auth |-> FALSE, target |-> "none", blank |-> FALSE,
     classification |-> "", status |-> "none", chat |-> 0, read |-> FALSE,
     sessionsBefore |-> 0, messagesBefore |-> 0]

ChatInit ==
    /\ sessions = << >>
    /\ messages = << >>
    /\ streams = [s \in StreamIds |-> NoStream]
    /\ utcnow = 0
    /\ updated_at = << >>
    /\ created_at = << >>
    /\ response = NoResponse

\* A lookup of the chat by its id alone.
SessionFoundById(chat_id, user_id) == chat_id \in 1..Len(sessions)

\* select(ChatSession).where(ChatSession.id == chat_id, ChatSession.user_id == user_id)
\* .scalar_one_or_none() is not None
SessionFound(chat_id, user_id) ==
    /\ chat_id \in 1..Len(sessions)
    /\ sessions[chat_id] = user_id

\* _get_chat_messages(chat_id, db_session)
GetChatMessages(chat_id) == SelectSeq(messages, LAMBDA m : m.chat_id = chat_id)

\* The gate of chat_stream on the chat's messages.
LastIsUser(msgs) == msgs # << >> /\ msgs[Len(msgs)].role = "user"

\* history: the earlier messages with content, as (role, content) pairs in order.
History(msgs) ==
    LET earlier == SubSeq(msgs, 1, Len(msgs) - 1)
        kept == SelectSeq(earlier, LAMBDA m : m.content # Blank)
    IN  [i \in 1..Len(kept) |-> [role |-> kept[i].role, content |-> kept[i].content]]

\* The keywords generate() passes to run_research_pipeline.
GenerateKeywords == {"db_session", "redis_url", "additional_context", "conversation_history"}

\* A chat is pending a response for a user: it exists, the user owns it, and the
\* newest of its messages in created_at order is a user message.
ChatRows(chat_id) == {i \in 1..Len(messages) : messages[i].chat_id = chat_id}

Newest(rows) == CHOOSE i \in rows : \A j \in rows : j <= i

Pending(user, chat_id) ==
    /\ chat_id \in 1..Len(sessions)
    /\ sessions[chat_id] = user
    /\ ChatRows(chat_id) # {}
    /\ messages[Newest(ChatRows(chat_id))].role = "user"

\* Whose chat a request names: the requester's own, another user's, or none.
Target(user, chat_id) ==
    IF user = NoUser THEN "none"
    ELSE IF chat_id \notin 1..Len(sessions) THEN "missing"
    ELSE IF sessions[chat_id] = user THEN "own"
    ELSE "foreign"

\* The record of a request: what was asked, in the state it was asked in, and
\* what the handler answered.
Response(op, user, chat_id, text, classification, status, chat, read) ==
    [op |-> op, auth |-> user # NoUser, target |-> Target(user, chat_id),
     blank |-> text = Blank, classification |-> classification, status |-> status,
     chat |-> chat, read |-> read,
     sessionsBefore |-> Len(sessions), messagesBefore |-> Len(messages)]

\* A search that opens a chat for SEARCH queries as well.
SearchCreatesChatForSearch(user, q, classification) ==
    user # NoUser /\ q # Blank /\ classification \in {"SEARCH", "RESEARCH"}

\* The path of search() that creates the chat: a user, a query that is not
\* blank, and the classification RESEARCH.
SearchCreatesChat(user, q, classification) ==
    user # NoUser /\ q # Blank /\ classification = "RESEARCH"

\* What search() answers.
SearchStatus(user, q, classification) ==
    IF user = NoUser THEN "unauthorized"
    ELSE IF q = Blank THEN "home"
    ELSE IF classification = "raise" THEN "error"
    ELSE IF SearchCreatesChat(user, q, classification) THEN "chat"
    ELSE "external"

\* The words the model may answer with, and the white space around them.
AnsweredWords ==
    {<<"U", "R", "L">>, <<"u", "r", "l">>, <<"U", "r", "l">>, <<"U", "R", "L", "S">>,
     <<"S", "E", "A", "R", "C", "H">>, <<"s", "e", "a", "r", "c", "h">>,
     <<"R", "E", "S", "E", "A", "R", "C", "H">>, <<"r", "e", "s", "e", "a", "r", "c", "h">>,
     <<"R", "e", "s", "e", "a", "r", "c", "h">>, <<"R", "E", " ", "S", "E", "A", "R", "C", "H">>,
     <<"m", "a", "y", "b", "e">>, <<"R", "E", "S", "E", "A", "R", "C", "H", ".">>, << >>}

Paddings == {<< >>, <<" ">>, <<"\n">>, <<" ", "\t">>}

AnsweredOutputs == {pre \o w \o post : pre \in Paddings, w \in AnsweredWords, post \in Paddings}

NoClassifyCall ==
    [user |-> NoUser, q |-> Blank, output |-> << >>, ran |-> FALSE, classification |-> "",
     status |-> "none"]

ClassifyInit == classify_call = NoClassifyCall

\* GET /search?q=... as far as its answer goes: classify_query runs for a user's
\* query that is not blank, and the chat is created for RESEARCH only.
SearchClassifies(user, q, output) ==
    /\ classify_call = NoClassifyCall
    /\ LET ran == user # NoUser /\ q # Blank
           classification == IF ran THEN ClassifyChars(output) ELSE ""
       IN  classify_call' = [user |-> user, q |-> q, output |-> output, ran |-> ran,
                             classification |-> classification,
                             status |-> SearchStatus(user, q, classification)]
    /\ UNCHANGED <<clock, memoryVars, redisVars, robotsVars, robotsCacheVars, cacheVars,
                   fetchVars, pipelineVars, chatVars>>

ClassifyNext ==
    \E user \in Users \cup {NoUser}, q \in Queries \cup {Blank}, output \in AnsweredOutputs :
        SearchClassifies(user, q, output)

\* GET /search?q=...  The classifier runs only for a user's query that is not
\* blank; when it raises, the exception leaves the handler.  The session row is
\* inserted by the flush, the message row by the commit.
Search(user, q, output) ==
    /\ Len(sessions) < MaxChats
    /\ Len(messages) < MaxMessages
    /\ LET classification == IF user = NoUser \/ q = Blank THEN ""
                             ELSE IF output = "raise" THEN "raise"
                             ELSE ClassifyQuery(output)
           chat_id == Len(sessions) + 1
       IN  IF SearchCreatesChat(user, q, classification)
           THEN \E d \in Elapsed :
                  /\ sessions' = Append(sessions, user)
                  /\ updated_at' = Append(updated_at, utcnow)
                  /\ messages' = Append(messages, UserMessage(chat_id, q))
                  /\ created_at' = Append(created_at, utcnow + d)
                  /\ utcnow' = utcnow + d
                  /\ response' = Response("search", user, 0, q, classification,
                                          "chat", chat_id, FALSE)
           ELSE /\ UNCHANGED <<sessions, messages, utcnow, updated_at, created_at>>
                /\ response' = Response("search", user, 0, q, classification,
                                        SearchStatus(user, q, classification), 0, FALSE)
    /\ UNCHANGED streams
    /\ UNCHANGED <<throttleVars, pipelineVars>>

\* What chat_view() answers.
ViewStatus(user, chat_id) ==
    IF user = NoUser THEN "unauthorized"
    ELSE IF ~SessionFound(chat_id, user) THEN "home"
    ELSE "chat.html"

\* GET /chat/<chat_id>: the messages are read once the chat was found.
ChatView(user, chat_id) ==
    /\ response' = Response("view", user, chat_id, Blank, "", ViewStatus(user, chat_id), 0,
                            ViewStatus(user, chat_id) = "chat.html")
    /\ UNCHANGED <<sessions, messages, streams, utcnow, updated_at, created_at>>
    /\ UNCHANGED <<throttleVars, pipelineVars>>

\* What add_message() answers.
AddMessageStatus(user, chat_id, content) ==
    IF user = NoUser THEN "401"
    ELSE IF ~SessionFound(chat_id, user) THEN "404"
    ELSE IF content = Blank THEN "400"
    ELSE "201"

\* POST /chat/<chat_id>/message: updated_at is read from the clock before the
\* commit inserts the message row.
AddMessage(user, chat_id, content) ==
    /\ Len(messages) < MaxMessages
    /\ IF AddMessageStatus(user, chat_id, content) = "201"
       THEN \E d \in Elapsed :
              /\ messages' = Append(messages, UserMessage(chat_id, content))
              /\ updated_at' = [updated_at EXCEPT ![chat_id] = utcnow]
              /\ created_at' = Append(created_at, utcnow + d)
              /\ utcnow' = utcnow + d
       ELSE UNCHANGED <<messages, utcnow, updated_at, created_at>>
    /\ response' = Response("message", user, chat_id, content, "",
                            AddMessageStatus(user, chat_id, content), 0, FALSE)
    /\ UNCHANGED <<sessions, streams>>
    /\ UNCHANGED <<throttleVars, pipelineVars>>

\* A chat_stream that looks the chat up by id alone.
StreamResponseAnyOwner(user, chat_id) ==
    IF user = NoUser THEN "unauthorized"
    ELSE IF chat_id \notin 1..Len(sessions) THEN "empty"
    ELSE IF ~LastIsUser(GetChatMessages(chat_id)) THEN "empty"
    ELSE "sse"

\* What chat_stream answers: the unauthorized page, an empty event stream, or
\* the event stream of generate().
StreamResponse(user, chat_id) ==
    IF user = NoUser THEN "unauthorized"
    ELSE IF ~SessionFound(chat_id, user) THEN "empty"
    ELSE IF ~LastIsUser(GetChatMessages(chat_id)) THEN "empty"
    ELSE "sse"

\* GET /chat/<chat_id>/stream?context=...: the handler, up to its response.
ChatStream(s, user, chat_id, context) ==
    /\ streams[s].gpc = "unused"
    /\ \A t \in StreamIds : t < s => streams[t].gpc # "unused"
    /\ UNCHANGED <<sessions, messages, utcnow, updated_at, created_at>>
    /\ response' = Response("stream", user, chat_id, Blank, "", StreamResponse(user, chat_id), 0,
                            user # NoUser /\ SessionFound(chat_id, user))
    /\ LET resp == StreamResponse(user, chat_id)
           msgs == GetChatMessages(chat_id)
       IN  streams' = [streams EXCEPT ![s] =
               [NoStream EXCEPT
                   !.user = user, !.chat = chat_id, !.context = context,
                   !.resp = resp,
                   !.gpc = IF resp = "sse" THEN "ready" ELSE "closed",
                   !.query = IF resp = "sse" THEN msgs[Len(msgs)].content ELSE << >>,
                   !.history = IF resp = "sse" THEN History(msgs) ELSE << >>,
                   !.pendingAtRequest = Pending(user, chat_id),
                   !.rowsBefore = Len(messages) + Len(sessions),
                   !.rowsAfter = Len(messages') + Len(sessions')]]
    /\ UNCHANGED <<throttleVars, pipelineVars>>

\* The first iteration of generate(): it calls run_research_pipeline inside its
\* try block.  When the call binds, the pipeline runs with generate() as its
\* consumer; when it raises, `except Exception` yields one error message and
\* generate() is over.
Generate(s) ==
    /\ streams[s].gpc = "ready"
    /\ IF BindsArguments(GenerateKeywords)
       THEN /\ rpc = "none"
            /\ rpc' = "created"
            /\ consumer' = [kind |-> "sse", stream |-> s]
            /\ full_query' = FullQuery(streams[s].query, streams[s].context)
            /\ streams' = [streams EXCEPT
                   ![s].gpc = "iterating", ![s].ran = TRUE,
                   ![s].prompt = FullQuery(streams[s].query, streams[s].context)]
       ELSE /\ streams' = [streams EXCEPT ![s].gpc = "closed",
                                          ![s].sse = Append(@, SSE("error", "TypeError"))]
            /\ UNCHANGED <<rpc, consumer, full_query>>
    /\ UNCHANGED <<queue, event, sent_responding, tpc, tool, fetched_urls, toolCalls,
                   textCount, written, yielded, raised, asked, activeAfterClose>>
    /\ UNCHANGED <<sessions, messages, utcnow, updated_at, created_at, response>>
    /\ UNCHANGED throttleVars

ChatNext ==
    \/ \E u \in Users \cup {NoUser}, q \in Queries \cup {Blank}, o \in ClassifierOutputs :
          Search(u, q, o)
    \/ \E u \in Users \cup {NoUser}, id \in ChatIds : ChatView(u, id)
    \/ \E u \in Users \cup {NoUser}, id \in ChatIds, m \in Queries \cup {Blank} :
          AddMessage(u, id, m)
    \/ \E s \in StreamIds, u \in Users \cup {NoUser}, id \in ChatIds, ctx \in Contexts :
          ChatStream(s, u, id, ctx)
    \/ \E s \in StreamIds : Generate(s)

(***************************************************************************)
(* scan_agent.py: the tool research, with the values it handles            *)
(***************************************************************************)

\* The URLs of the results brave_search returns, in order ("": a result with
\* no URL).
FoundResults ==
    {<< >>, <<"https://x.test/a">>, <<"https://x.test/a", "https://x.test/b">>,
     <<"", "https://x.test/b", "https://x.test/a">>}

\* The agent calls research(topic); ctx.deps.redis_url is the pipeline's, the
\* same in every call, and ctx.deps.fetched_urls is kept from call to call.
ResearchToolCall(topic, redis_url) ==
    /\ research_tool.pc \in {"idle", "returned"}
    /\ research_tool.pc = "returned" => redis_url = research_tool.redis_url
    /\ research_tool' = [NoResearch EXCEPT !.pc = "searching", !.topic = topic,
                                           !.redis_url = redis_url,
                                           !.fetched_urls = research_tool.fetched_urls,
                                           !.attempted = research_tool.attempted,
                                           !.refetched = research_tool.refetched]
    /\ UNCHANGED <<last_got, fetch_call, cacheVars>>
    /\ UNCHANGED <<classify_call, clock, memoryVars, redisVars, robotsVars, robotsCacheVars,
                   pipelineVars, chatVars>>

\* brave_search raises: return f"Search failed for: {topic}".
ResearchToolSearchFails ==
    /\ research_tool.pc = "searching"
    /\ research_tool' =
          [research_tool EXCEPT !.pc = "returned",
                                !.returned = Some(ToolString("Search failed for",
                                                             research_tool.topic, << >>))]
    /\ UNCHANGED <<last_got, fetch_call, cacheVars>>
    /\ UNCHANGED <<classify_call, clock, memoryVars, redisVars, robotsVars, robotsCacheVars,
                   pipelineVars, chatVars>>

\* The return of research once the loop over the URLs has ended.
ReturnOfLoop(topic, results, findings) ==
    IF findings = << >>
    THEN ToolString("Search results for", topic, FirstThree(results))
    ELSE ToolString("findings", topic, findings)

\* brave_search returns: no results, or the URLs picked for the loop.
ResearchToolSearchReturns(results) ==
    /\ research_tool.pc = "searching"
    /\ LET urls == PickTopUrls(results, research_tool.fetched_urls, MaxUrls, << >>)
           topic == research_tool.topic
       IN  research_tool' =
              IF results = << >>
              THEN [research_tool EXCEPT
                       !.pc = "returned",
                       !.returned = Some(ToolString("No search results found for", topic,
                                                    << >>))]
              ELSE IF urls = << >>
              THEN [research_tool EXCEPT
                       !.pc = "returned", !.results = results,
                       !.returned = Some(ReturnOfLoop(topic, results, << >>))]
              ELSE [research_tool EXCEPT !.pc = "fetching", !.results = results,
                                         !.urls = urls, !.i = 1]
    /\ UNCHANGED <<last_got, fetch_call, cacheVars>>
    /\ UNCHANGED <<classify_call, clock, memoryVars, redisVars, robotsVars, robotsCacheVars,
                   pipelineVars, chatVars>>

\* A loop whose try has no `except Exception: pass`
FetchRaisedPropagates(next) == "raised"

\* Where the loop stands after fetch_and_extract raised: `except Exception:
\* pass`, the loop goes on.
FetchRaised(next) == next

\* One turn of the loop: fetch_and_extract(url, topic, db_session, redis_url)
\* for the next URL, and after the last URL the return.
ResearchToolFetch(env) ==
    /\ research_tool.pc = "fetching"
    /\ \E out \in {FetchAndExtract(research_tool.urls[research_tool.i],
                                   research_tool.topic, TRUE, research_tool.redis_url, env,
                                   kv_store, unix_seconds)} :
          LET url == research_tool.urls[research_tool.i]
              findings == IF ~out.raised /\ out.result # None
                          THEN Append(research_tool.findings, Finding(url, out.result[1]))
                          ELSE research_tool.findings
              fetched == IF out.raised THEN research_tool.fetched_urls
                         ELSE research_tool.fetched_urls \cup {url}
              last == research_tool.i = Len(research_tool.urls)
              next == IF last THEN "returned" ELSE "fetching"
              pc == IF out.raised THEN FetchRaised(next) ELSE next
              entry == [url |-> url, extract |-> env.extract, now |-> unix_seconds,
                        got_before |-> last_got[url],
                        out |-> [out EXCEPT !.store = << >>]]
          IN  /\ research_tool' =
                    [research_tool EXCEPT
                        !.pc = pc,
                        !.i = IF pc = "fetching" THEN @ + 1 ELSE @,
                        !.findings = findings,
                        !.fetched_urls = fetched,
                        !.log = Append(@, entry),
                        !.attempted = @ \cup {url},
                        !.refetched = IF url \in research_tool.attempted
                                      THEN @ \cup {url} ELSE @,
                        !.returned = IF pc = "returned"
                                     THEN Some(ReturnOfLoop(research_tool.topic,
                                                            research_tool.results, findings))
                                     ELSE None]
              /\ kv_store' = out.store
              /\ last_got' = LastGotAfter(last_got, url, out, research_tool.redis_url,
                                          unix_seconds)
    /\ UNCHANGED <<unix_seconds, last_stored, ttl_call, cache_call, fetch_call>>
    /\ UNCHANGED <<classify_call, clock, memoryVars, redisVars, robotsVars, robotsCacheVars,
                   pipelineVars, chatVars>>

ResearchToolNext ==
    \/ \E topic \in Topics, redis_url \in RedisUrls : ResearchToolCall(topic, redis_url)
    \/ ResearchToolSearchFails
    \/ \E results \in FoundResults : ResearchToolSearchReturns(results)
    \/ \E env \in FetchEnvs : ResearchToolFetch(env)

(***************************************************************************)
(* Specifications                                                          *)
(***************************************************************************)
Init ==
    /\ ThrottleInit /\ RobotsInit /\ RobotsCacheInit /\ CacheInit /\ FetchInit
    /\ ClassifyInit
    /\ PipelineInit /\ ChatInit

Next ==
    \/ ThrottleNext \/ RedisNext \/ RobotsNext \/ RobotsCacheNext
    \/ TtlNext \/ CacheNext \/ FetchNext \/ ResearchToolNext \/ ClassifyNext
    \/ PipelineNext \/ ChatNext

Spec == Init /\ [][Next]_vars

SpecThrottle == Init /\ [][ThrottleNext]_vars

SpecRedis == Init /\ [][RedisNext]_vars

SpecRobots == Init /\ [][RobotsNext]_vars

SpecRobotsCache == Init /\ [][RobotsCacheNext]_vars

SpecTtl == Init /\ [][TtlNext]_vars

SpecCache == Init /\ [][CacheNext]_vars

SpecFetch == Init /\ [][FetchNext]_vars

SpecResearchTool == Init /\ [][ResearchToolNext]_vars

SpecClassify == Init /\ [][ClassifyNext]_vars

SpecPipeline == Init /\ [][PipelineNext]_vars

SpecChat == Init /\ [][ChatNext]_vars

(***************************************************************************)
(* Termination of wait_for_rate_limit.  The callers of one process all     *)
(* pass the redis_url of its settings, so they are all in one mode; calls  *)
(* are made up to MaxClock, and after that time runs on for as long as a   *)
(* sleeper is waiting for it.                                              *)
(***************************************************************************)
SleeperWaits ==
    \/ \E c \in Callers : wpc[c] = "sleeping" /\ clock < wake[c]
    \/ \E c \in Clients : redis_pc[c] = "sleeping" /\ clock < redis_wake[c]

InMemoryMode == \A c \in Clients : redis_pc[c] = "idle"

InRedisMode == \A c \in Callers : wpc[c] = "idle"

\* The clock keeps advancing; a sleeper that is due is resumed first.
Elapse ==
    /\ clock < MaxClock \/ SleeperWaits
    /\ \A c \in Callers : wpc[c] = "sleeping" => clock < wake[c] + MaxOversleep
    /\ \A c \in Clients : redis_pc[c] = "sleeping" => clock < redis_wake[c] + MaxOversleep
    /\ clock' = clock + 1
    /\ UNCHANGED <<memoryVars, redisVars, robotsVars, webVars, pipelineVars, chatVars>>

\* The callers are alike: they make their calls in the order of their numbers.
MemoryCall(c) ==
    /\ clock <= MaxClock
    /\ InMemoryMode
    /\ \A b \in Callers : b < c => wpc[b] # "idle"
    /\ WaitMemoryEnter(c, "a.test")

RedisCall(c) ==
    /\ clock <= MaxClock
    /\ InRedisMode
    /\ \A b \in Clients : b < c => redis_pc[b] # "idle"
    /\ WaitRedisEnter(c, "a.test")

WaitLiveNext ==
    \/ Elapse
    \/ \E c \in Callers : MemoryCall(c)
    \/ \E c \in Callers : WaitMemoryWake(c)
    \/ \E c \in Clients : RedisCall(c)
    \/ \E c \in Clients : WaitRedisSet(c)
    \/ \E c \in Clients : WaitRedisPttl(c)
    \/ \E c \in Clients : WaitRedisWake(c)

\* The event loop resumes every coroutine that is ready to run, and a Redis
\* command that was sent is answered.
WaitFairness ==
    /\ WF_vars(Elapse)
    /\ \A c \in Callers : WF_vars(WaitMemoryWake(c))
    /\ \A c \in Clients :
          /\ WF_vars(WaitRedisSet(c))
          /\ WF_vars(WaitRedisPttl(c))
          /\ WF_vars(WaitRedisWake(c))

SpecWaitLive == Init /\ [][WaitLiveNext]_vars /\ WaitFairness

----------------------------------------------------------------------------
(***************************************************************************)
(* Helpers of the properties                                               *)
(***************************************************************************)
Abs(x) == IF x < 0 THEN -x ELSE x

Last(seq) == seq[Len(seq)]

IsPrefix(a, b) == Len(a) <= Len(b) /\ SubSeq(b, 1, Len(a)) = a

OfKind(seq, kind) == SelectSeq(seq, LAMBDA e : e.kind = kind)

NonStage(seq) == SelectSeq(seq, LAMBDA e : e.kind # "stage")

\* The events that end a stream: DoneEvent, ErrorEvent, ClarificationEvent.
EndsStream(ev) == ev.kind = "done" \/ ev.kind = "error" \/ ev.kind = "clarification"

Terminals(seq) == SelectSeq(seq, EndsStream)

\* seq up to and including its first terminal event; all of seq when it has none.
UpToFirstTerminal(seq) ==
    IF \E i \in 1..Len(seq) : EndsStream(seq[i])
    THEN SubSeq(seq, 1, CHOOSE i \in 1..Len(seq) :
                            /\ EndsStream(seq[i])
                            /\ \A j \in 1..(i - 1) : ~EndsStream(seq[j]))
    ELSE seq

\* The text of the TextEvents of seq, concatenated in order.
TextOf(seq) == [i \in 1..Len(OfKind(seq, "text")) |-> OfKind(seq, "text")[i].val]

RECURSIVE Flatten(_)
Flatten(seqs) == IF seqs = << >> THEN << >> ELSE Head(seqs) \o Flatten(Tail(seqs))

\* a occurs in b, in order (not necessarily contiguously).
RECURSIVE IsSubsequence(_, _)
IsSubsequence(a, b) ==
    IF a = << >> THEN TRUE
    ELSE IF b = << >> THEN FALSE
    ELSE IF Head(a) = Head(b) THEN IsSubsequence(Tail(a), Tail(b))
    ELSE IsSubsequence(a, Tail(b))

NoAssistantMessage == \A i \in 1..Len(messages) : messages[i].role # "assistant"

StreamEnded == rpc \in {"joining", "finished"}

(***************************************************************************)
(* Properties                                                              *)
(***************************************************************************)

\* C1: in in-process mode any two calls of wait_for_rate_limit(domain, d) for the
\* same domain that have returned did so at least d seconds apart.
C1_GrantsSpacedByDelay ==
    \A c1, c2 \in Callers :
        (/\ c1 # c2
         /\ wpc[c1] = "returned"
         /\ wpc[c2] = "returned"
         /\ wdomain[c1] = wdomain[c2])
        => Abs(grantAt[c1] - grantAt[c2]) >= DelaySeconds

\* C2: once the consumer of run_research_pipeline has stopped iterating, the agent
\* task does nothing further (no tool call, fetch or queue write), and no
\* assistant message is persisted.
C2_AbortStopsAgentTask ==
    rpc = "closed" => (~activeAfterClose /\ NoAssistantMessage)

\* C3: a streaming turn that ended without an agent error, a clarification or a
\* disconnect has `done` as its last SSE message and has persisted exactly one
\* assistant message, whose content is the text of the turn's TextEvents in order.
C3_NormalTurnPersistsAnswer ==
    \A s \in StreamIds :
        LET st == streams[s]
        IN  (/\ st.resp = "sse"
             /\ st.gpc = "closed"
             /\ OfKind(st.received, "error") = << >>
             /\ OfKind(st.received, "clarification") = << >>)
            => /\ st.sse # << >>
               /\ Last(st.sse).event = "done"
               /\ Len(st.persisted) = 1
               /\ st.persisted[1].role = "assistant"
               /\ st.persisted[1].chat_id = st.chat
               /\ st.persisted[1].content = TextOf(st.received)

\* C4: once ask_user(questions) was called, ClarificationEvent{questions} is the
\* last event written, the agent task is over, the stream ends with that event,
\* no DoneEvent or ErrorEvent is forwarded and no assistant message is persisted.
C4_ClarificationEndsStream ==
    asked # "" =>
        /\ written # << >>
        /\ Last(written) = ClarificationEvent(asked)
        /\ tpc = "done"
        /\ OfKind(yielded, "done") = << >>
        /\ OfKind(yielded, "error") = << >>
        /\ StreamEnded => Last(yielded) = ClarificationEvent(asked)
        /\ OfKind(yielded, "clarification") # << >> => rpc \notin {"getting", "at_responding"}
        /\ NoAssistantMessage

C4_Witness ==
    /\ rpc = "finished"
    /\ asked # ""
    /\ OfKind(yielded, "detail") # << >>
    /\ Last(yielded) = ClarificationEvent(asked)

\* C5: the events yielded besides the stage markers are the events written to the
\* queue, unchanged and in order, up to and including the first terminal event;
\* the only stage markers are researching and then responding; a stream that
\* ended has forwarded exactly one terminal event, as its last event, and the
\* generator never returns to the queue after it.
C5_ForwardsQueueInOrder ==
    LET forwarded == NonStage(yielded)
    IN  /\ IsPrefix(forwarded, UpToFirstTerminal(written))
        /\ IsPrefix(OfKind(yielded, "stage"),
                    <<StageEvent("researching"), StageEvent("responding")>>)
        /\ Len(Terminals(yielded)) <= 1
        /\ Terminals(yielded) # << >> =>
              /\ EndsStream(Last(yielded))
              /\ rpc \notin {"getting", "at_responding"}
        /\ StreamEnded =>
              /\ forwarded = UpToFirstTerminal(written)
              /\ Len(Terminals(yielded)) = 1

C5_Witness ==
    /\ rpc = "finished"
    /\ OfKind(yielded, "detail") # << >>
    /\ Len(OfKind(yielded, "text")) = 2
    /\ Last(yielded) = DoneEvent

\* C6: when a TextEvent has been forwarded, StageEvent{responding} was yielded
\* exactly once, as the event immediately before the first TextEvent.
C6_RespondingOnceBeforeFirstText ==
    LET textAt == {i \in 1..Len(yielded) : yielded[i].kind = "text"}
        respondingAt == {i \in 1..Len(yielded) : yielded[i] = StageEvent("responding")}
    IN  /\ Cardinality(respondingAt) <= 1
        /\ textAt # {} =>
              LET first == CHOOSE i \in textAt : \A j \in textAt : i <= j
              IN  respondingAt = {first - 1}

C6_Witness ==
    /\ Len(OfKind(yielded, "text")) = 2
    /\ OfKind(yielded, "detail") # << >>

\* C7: the first event of a stream is StageEvent{researching}: the pipeline
\* yields it before the agent task exists and before anything is written to or
\* taken from the queue, and it is the first SSE message of every
\* /chat/<id>/stream response for a pending chat.
C7_FirstEventIsResearching ==
    /\ yielded # << >> => yielded[1] = StageEvent("researching")
    /\ (tpc # "none" \/ written # << >>) => yielded # << >>
    /\ \A s \in StreamIds :
          (streams[s].resp = "sse" /\ streams[s].sse # << >>)
          => streams[s].sse[1] = SSE("stage", "researching")

\* C8: once the agent run raised an error, exactly one ErrorEvent with its text
\* was written, as the last event; the stream ends with it, the generator never
\* returns to the queue after it, and no assistant message is persisted.
C8_AgentErrorEndsStream ==
    raised # "" =>
        /\ written # << >>
        /\ Last(written) = ErrorEvent(raised)
        /\ Len(OfKind(written, "error")) = 1
        /\ tpc = "done"
        /\ OfKind(yielded, "error") # << >> => rpc \notin {"getting", "at_responding"}
        /\ StreamEnded =>
              /\ Last(yielded) = ErrorEvent(raised)
              /\ Len(OfKind(yielded, "error")) = 1
              /\ OfKind(yielded, "done") = << >>
        /\ NoAssistantMessage

C8_Witness ==
    /\ rpc = "finished"
    /\ raised # ""
    /\ OfKind(yielded, "text") # << >>
    /\ Last(yielded) = ErrorEvent(raised)

\* C9: a streaming turn on a chat with earlier messages runs the pipeline, and the
\* agent's prompt contains the content of those messages, in order.
C9_HistoryReachesAgent ==
    \A s \in StreamIds :
        LET st == streams[s]
        IN  (st.resp = "sse" /\ st.gpc # "ready" /\ st.history # << >>)
            => /\ st.ran
               /\ IsSubsequence(
                      Flatten([i \in 1..Len(st.history) |-> st.history[i].content]),
                      st.prompt)

\* C10 as stated: /chat/<id>/stream hands out the pipeline's stream only for a
\* chat that is pending for the requester; every other request gets an empty
\* event stream, starts nothing and persists nothing.
C10_StreamGatedOnPending ==
    \A s \in StreamIds :
        LET st == streams[s]
        IN  st.resp # "none" =>
               /\ st.resp = "sse" => st.pendingAtRequest
               /\ st.ran => st.pendingAtRequest
               /\ ~st.pendingAtRequest =>
                     /\ st.resp = "empty"
                     /\ ~st.ran
                     /\ st.sse = << >>
                     /\ st.persisted = << >>
                     /\ st.rowsAfter = st.rowsBefore

\* C10 as amended: the same, except that a request without a session user gets
\* the unauthorized page instead of an empty event stream.
C10_StreamGatedOrUnauthorized ==
    \A s \in StreamIds :
        LET st == streams[s]
        IN  st.resp # "none" =>
               /\ st.resp = "sse" => st.pendingAtRequest
               /\ st.ran => st.pendingAtRequest
               /\ ~st.pendingAtRequest =>
                     /\ st.resp = IF st.user = NoUser THEN "unauthorized" ELSE "empty"
                     /\ ~st.ran
                     /\ st.sse = << >>
                     /\ st.persisted = << >>
                     /\ st.rowsAfter = st.rowsBefore

C10_Witness ==
    \E s \in StreamIds :
        /\ streams[s].resp = "empty"
        /\ streams[s].user \in Users
        /\ streams[s].chat \in 1..Len(sessions)
        /\ sessions[streams[s].chat] # streams[s].user
        /\ LastIsUser(GetChatMessages(streams[s].chat))

\* The rows of a chat's user messages.
UserRows(chat_id) == {i \in ChatRows(chat_id) : messages[i].role = "user"}

\* The stream request made last.
LastStream == CHOOSE s \in StreamIds :
                  /\ streams[s].gpc # "unused"
                  /\ \A t \in StreamIds : streams[t].gpc # "unused" => t <= s

\* C11: a /search request by a user, with a query that is not blank and the
\* classification RESEARCH, has created exactly one session and exactly one
\* message, a user message of that session, when it answers with the chat's
\* address; any other /search request (no user, a blank query, URL or SEARCH, a
\* failed classifier) has created no session and no message; and a stream is
\* handed out only for a chat that has its user message.
C11_SearchCreatesOneChat ==
    /\ response.op = "search" =>
          IF response.auth /\ ~response.blank /\ response.classification = "RESEARCH"
          THEN /\ response.status = "chat"
               /\ Len(sessions) = response.sessionsBefore + 1
               /\ response.chat = Len(sessions)
               /\ UserRows(response.chat) = {response.messagesBefore + 1}
               /\ ChatRows(response.chat) = UserRows(response.chat)
               /\ Len(messages) = response.messagesBefore + 1
               /\ messages[response.messagesBefore + 1].content # Blank
          ELSE /\ response.status \in {"unauthorized", "home", "error", "external"}
               /\ response.chat = 0
               /\ Len(sessions) = response.sessionsBefore
               /\ Len(messages) = response.messagesBefore
    /\ \A s \in StreamIds :
          streams[s].resp = "sse" =>
              /\ streams[s].chat \in 1..Len(sessions)
              /\ UserRows(streams[s].chat) # {}

C11_Witness ==
    /\ response.op = "search"
    /\ response.status = "chat"
    /\ response.chat = 2
    /\ Len(messages) = 2

\* C12: the updated_at of a session is never older than the created_at of the
\* newest of its messages.
C12_UpdatedAtCoversNewestMessage ==
    \A id \in 1..Len(sessions) :
        ChatRows(id) # {} => updated_at[id] >= created_at[Newest(ChatRows(id))]

\* C13: a view, append or stream request of a user on another user's chat reads
\* no message of the chat, adds no row, starts no pipeline run, and is answered
\* as the same request is for a chat id that does not exist.
C13_ForeignChatIsMissingChat ==
    (response.op \in {"view", "message", "stream"} /\ response.target = "foreign") =>
        /\ ~response.read
        /\ Len(sessions) = response.sessionsBefore
        /\ Len(messages) = response.messagesBefore
        /\ \A u \in Users, m \in Queries \cup {Blank} :
              /\ response.op = "view" => response.status = ViewStatus(u, 0)
              /\ (response.op = "message" /\ response.blank = (m = Blank))
                    => response.status = AddMessageStatus(u, 0, m)
              /\ response.op = "stream" => response.status = StreamResponse(u, 0)
        /\ response.op = "stream" =>
              /\ streams[LastStream].resp = "empty"
              /\ ~streams[LastStream].ran
              /\ streams[LastStream].sse = << >>
              /\ rpc = "none"

C13_Witness ==
    /\ response.op = "message"
    /\ response.target = "foreign"
    /\ ~response.blank
    /\ \E s \in StreamIds :
          /\ streams[s].resp = "empty"
          /\ streams[s].user \in Users
          /\ streams[s].chat \in 1..Len(sessions)
          /\ sessions[streams[s].chat] # streams[s].user

\* C14: every assistant message of a chat comes after a user message of the
\* same chat in created_at order.
C14_AssistantFollowsUser ==
    \A i \in 1..Len(messages) :
        messages[i].role = "assistant" =>
            \E j \in 1..(i - 1) :
                messages[j].chat_id = messages[i].chat_id /\ messages[j].role = "user"

\* C15: in Redis mode a call has returned only after its own SET NX succeeded,
\* and any two calls for the same domain that have returned did so at least d
\* seconds apart; a caller sleeps only for a positive remaining TTL, for exactly
\* that long, and after a PTTL of at most 0 it is back at the SET without a sleep.
C15_RedisGrantsSpacedByDelay ==
    /\ \A c \in Clients :
          /\ redis_pc[c] = "returned" => redis_acquired[c]
          /\ redis_acquired[c] => redis_pc[c] = "returned"
          /\ redis_pc[c] = "sleeping" =>
                /\ redis_remaining[c] > 0
                /\ redis_wake[c] * MsPerSecond =
                      redis_asked[c] * MsPerSecond + redis_remaining[c]
    /\ \A c1, c2 \in Clients :
          (/\ c1 # c2
           /\ redis_pc[c1] = "returned"
           /\ redis_pc[c2] = "returned"
           /\ redis_domain[c1] = redis_domain[c2])
          => Abs(redis_grant[c1] - redis_grant[c2]) >= DelaySeconds

C15_Witness ==
    \E c1, c2, c3 \in Clients :
        /\ c1 # c2 /\ c2 # c3 /\ c1 # c3
        /\ redis_pc[c1] = "returned"
        /\ redis_pc[c2] = "returned"
        /\ redis_domain[c1] = redis_domain[c2]
        /\ redis_remaining[c2] > 0
        /\ redis_grant[c2] = redis_grant[c1] + DelaySeconds
        /\ redis_domain[c3] = redis_domain[c1]
        /\ redis_remaining[c3] = -2

(***************************************************************************)
(* robots.txt claims                                                       *)
(***************************************************************************)

WatchedAgents == {WATCHED_USER_AGENTS[i] : i \in 1..Len(WATCHED_USER_AGENTS)}

\* The rules of a group that match a path, by index.
MatchingRules(rules, path) == {i \in 1..Len(rules) : PathMatches(rules[i].path, path)}

\* The applicable rule as the specification has it: a matching rule of the
\* longest path, a Disallow when rules of that length tie.
ApplicableIsDisallow(rules, path) ==
    \E i \in MatchingRules(rules, path) :
        /\ ~rules[i].allowed
        /\ \A j \in MatchingRules(rules, path) : Len(rules[j].path) <= Len(rules[i].path)

\* A group names an agent: it lists a non-empty, non-wildcard user-agent that
\* is a substring of the agent.
GroupNames(group, agent) ==
    \E k \in 1..Len(group.user_agents) :
        /\ group.user_agents[k] # <<"*">>
        /\ group.user_agents[k] # << >>
        /\ IsSubstring(group.user_agents[k], agent)

\* C16: when a group naming a watched agent holds Disallow: /, whatever its
\* other rules, is_path_allowed(parsed, "/") is false.
C16_RootDisallowBlocksRoot ==
    (/\ robots_query.call = "is_path_allowed"
     /\ robots_query.arg = <<"/">>
     /\ \E agent \in WatchedAgents, g \in 1..Len(robots_parsed.groups) :
           /\ GroupNames(robots_parsed.groups[g], agent)
           /\ \E r \in 1..Len(robots_parsed.groups[g].rules) :
                 robots_parsed.groups[g].rules[r] = RobotsRule(<<"/">>, FALSE))
    => robots_query.result = 0

\* C17: for every watched agent and path, the rule is_path_allowed applies is
\* a matching rule of the longest path in the agent's group, and a Disallow
\* whenever a Disallow of that length matches, whatever the order of the rules.
C17_LongestRuleTiesDisallow ==
    robots_parsed # NoParsed =>
        \A agent \in WatchedAgents, path \in Paths :
            LET g == FindMatchingGroup(robots_parsed, agent)
            IN  g # 0 =>
                  LET rules == robots_parsed.groups[g].rules
                      best_rule == BestRule(rules, path)
                  IN  /\ best_rule = 0 <=> MatchingRules(rules, path) = {}
                      /\ best_rule # 0 =>
                            /\ best_rule \in MatchingRules(rules, path)
                            /\ \A j \in MatchingRules(rules, path) :
                                  /\ Len(rules[j].path) <= Len(rules[best_rule].path)
                                  /\ (/\ Len(rules[j].path) = Len(rules[best_rule].path)
                                      /\ ~rules[j].allowed)
                                     => ~rules[best_rule].allowed

\* C18: a file with a line "# ai-input: no" anywhere is allowed for no path,
\* whatever its other lines, other ai-input comments included.
C18_AiInputNoBlocksAll ==
    (/\ robots_query.call = "is_path_allowed"
     /\ \E i \in 1..Len(robots_content) : robots_content[i] = CommentLine("ai-input: no"))
    => robots_query.result = 0

\* C19: is_path_allowed returns false exactly when ai_input is no or, for some
\* watched agent, the applicable rule of its matching group is a Disallow.
C19_FalseIffHintOrDisallow ==
    robots_query.call = "is_path_allowed" =>
        (robots_query.result = 0 <=>
            \/ robots_parsed.ai_input = "no"
            \/ \E agent \in WatchedAgents :
                  LET g == FindMatchingGroup(robots_parsed, agent)
                  IN  /\ g # 0
                      /\ ApplicableIsDisallow(robots_parsed.groups[g].rules,
                                              robots_query.arg))

\* The lengths of the non-wildcard user-agents of a group, longer than min_len,
\* that are substrings of the lowercased target.
SpecificMatchLens(group, target, min_len) ==
    {Len(group.user_agents[k]) : k \in
        {k \in 1..Len(group.user_agents) :
            /\ group.user_agents[k] # <<"*">>
            /\ Len(group.user_agents[k]) > min_len
            /\ IsSubstring(group.user_agents[k], Lower(target))}}

\* The result of _find_matching_group is the group with the longest matching
\* non-wildcard user-agent longer than min_len, else a * group, else None.
LongestMatchOrWildcard(min_len) ==
    LET groups == robots_parsed.groups
        target == robots_query.arg
        result == robots_query.result
        lens == UNION {SpecificMatchLens(groups[g], target, min_len) : g \in 1..Len(groups)}
    IN  IF lens # {}
        THEN /\ result # 0
             /\ \E n \in SpecificMatchLens(groups[result], target, min_len) :
                   \A n2 \in lens : n2 <= n
        ELSE IF \E g \in 1..Len(groups) : \E k \in 1..Len(groups[g].user_agents) :
                   groups[g].user_agents[k] = <<"*">>
        THEN /\ result # 0
             /\ \E k \in 1..Len(groups[result].user_agents) :
                   groups[result].user_agents[k] = <<"*">>
        ELSE result = 0

\* C20 (as stated): _find_matching_group returns the group with the longest
\* non-wildcard user-agent that is a substring of the lowercased target, the *
\* group when no non-wildcard user-agent matches, and None when neither exists.
C20_LongestUaOrWildcard ==
    robots_query.call = "_find_matching_group" => LongestMatchOrWildcard(-1)

\* C20 (amended): the same over the non-empty non-wildcard user-agents: a group
\* whose only matching user-agent is the empty string is never returned for it.
C20_LongestNonEmptyUaOrWildcard ==
    robots_query.call = "_find_matching_group" => LongestMatchOrWildcard(0)

C20_Witness ==
    /\ robots_query.call = "_find_matching_group"
    /\ robots_query.result # 0
    /\ \E g \in 1..Len(robots_parsed.groups) :
          /\ g # robots_query.result
          /\ SpecificMatchLens(robots_parsed.groups[g], robots_query.arg, 0) # {}
          /\ \A n \in SpecificMatchLens(robots_parsed.groups[g], robots_query.arg, 0) :
                \E n2 \in SpecificMatchLens(robots_parsed.groups[robots_query.result],
                                             robots_query.arg, 0) : n < n2

(***************************************************************************)
(* robots cache claims                                                     *)
(***************************************************************************)

\* The maximum crawl_delay over the matching groups of the watched agents, the
\* default when none of them has one.
MaxWatchedCrawlDelay(parsed) ==
    LET matching == {FindMatchingGroup(parsed, agent) : agent \in WatchedAgents} \ {0}
        delays == {parsed.groups[g].crawl_delay[1] :
                      g \in {g \in matching : parsed.groups[g].crawl_delay # None}}
    IN  IF delays = {} THEN DefaultCrawlDelay
        ELSE CHOOSE d \in delays : \A e \in delays : e <= d

\* C21: the delay check_url_allowed returns is the maximum crawl_delay over the
\* matching groups of the watched agents of the rules it returns, 10 when none
\* has one, and a call answered from a valid row returns the delay and rules of
\* the call that wrote the row.
C21_CrawlDelayIsMaxOrDefault ==
    /\ \A c \in Checkers :
          (cpc[c] = "returned" /\ ccall[c].url.hostname # "")
          => ccall[c].delay = MaxWatchedCrawlDelay(ccall[c].parsed)
    /\ \A c1, c2 \in Checkers :
          (/\ cpc[c1] = "returned"
           /\ cpc[c2] = "returned"
           /\ ccall[c2].fetches = 0
           /\ ccall[c2].source = c1)
          => /\ ccall[c2].delay = ccall[c1].delay
             /\ ccall[c2].parsed = ccall[c1].parsed

C21_Witness ==
    \E c1, c2 \in Checkers :
        /\ cpc[c1] = "returned"
        /\ cpc[c2] = "returned"
        /\ ccall[c1].fetches = 1
        /\ ccall[c2].fetches = 0
        /\ ccall[c2].source = c1
        /\ ccall[c2].delay = 20
        /\ \E g \in 1..Len(ccall[c2].parsed.groups) :
              ccall[c2].parsed.groups[g].crawl_delay = Some(5)

\* C22: a call that begins after another call for the same domain has
\* returned, less than 24 hours after it began, and finds the row that call
\* wrote, returns that call's rules without a fetch: the two fetch at most once.
C22_SecondCallWithin24hDoesNotFetch ==
    \A c1, c2 \in Checkers :
        (/\ cpc[c2] # "idle"
         /\ c1 \in ccall[c2].after
         /\ ccall[c2].url.hostname = ccall[c1].url.hostname
         /\ ccall[c2].source = c1
         /\ ccall[c2].now - ccall[c1].now < RecheckInterval)
        => /\ cpc[c2] = "returned"
           /\ ccall[c2].fetches = 0
           /\ ccall[c1].fetches + ccall[c2].fetches <= 1
           /\ ccall[c2].parsed = ccall[c1].parsed

C22_Witness ==
    \E c1, c2 \in Checkers :
        /\ cpc[c2] = "returned"
        /\ c1 \in ccall[c2].after
        /\ ccall[c2].source = c1
        /\ ccall[c2].now > ccall[c1].now
        /\ ccall[c2].now - ccall[c1].now < RecheckInterval
        /\ ccall[c1].fetches = 1
        /\ ccall[c2].fetches = 0

\* C23: under every interleaving of the calls for a domain each call completes
\* with parsed rules, and the table holds one row for the domain, never two.
C23_ConcurrentCallsBothComplete ==
    /\ \A c \in Checkers : cpc[c] # "raised"
    /\ \A i, j \in 1..Len(robots_txt_cache) :
          robots_txt_cache[i].domain = robots_txt_cache[j].domain => i = j

\* C24: every row has next_check_at = fetched_at + 24h, and a call whose GET
\* came to anything but a 200 returns and stores the empty rule set, which
\* allows every path, also in place of a row that disallowed paths.
C24_FailedFetchStoresAllowAll ==
    /\ \A i \in 1..Len(robots_txt_cache) :
          robots_txt_cache[i].next_check_at = robots_txt_cache[i].fetched_at + RecheckInterval
    /\ \A c \in Checkers :
          (cpc[c] = "returned" /\ ccall[c].fetches = 1 /\ ccall[c].resp.status_code # 200)
          => /\ ccall[c].parsed = ParseRobotsTxt(<< >>)
             /\ ccall[c].allowed
             /\ \A i \in 1..Len(robots_txt_cache) :
                   robots_txt_cache[i].written_by = c =>
                      /\ robots_txt_cache[i].raw_content = << >>
                      /\ robots_txt_cache[i].fetched_at = ccall[c].now
                      /\ \A path \in Paths :
                            IsPathAllowed(
                               DeserializeParsed(robots_txt_cache[i].rules_json), path)

C24_Witness ==
    \E c \in Checkers :
        /\ cpc[c] = "returned"
        /\ ccall[c].fetches = 1
        /\ ccall[c].resp.status_code = 404
        /\ ccall[c].replaced # NoRow
        /\ ~IsPathAllowed(DeserializeParsed(ccall[c].replaced.rules_json), <<"/", "a">>)
        /\ \E i \in 1..Len(robots_txt_cache) :
              /\ robots_txt_cache[i].written_by = c
              /\ robots_txt_cache[i].domain = ccall[c].replaced.domain

\* The directives of a Cache-Control header that carry a number: max-age=N.
ValidMaxAges(parts) ==
    {i \in 1..Len(parts) : IsMaxAge(parts[i]) /\ MaxAgeValue(parts[i]) # None}

\* C27: _parse_cache_ttl returns 0 whenever Cache-Control contains no-cache or
\* no-store, wherever it stands and whatever max-age is also present; otherwise
\* the N of a max-age=N directive, wherever it stands, clamped to at least 0;
\* otherwise the Expires time minus the current time clamped to at least 0;
\* otherwise 86400.
C27_TtlByPrecedence ==
    ttl_call # NoTtlCall =>
        LET parts == ttl_call.headers.cache_control
            expires == ttl_call.headers.expires
        IN  IF \E i \in 1..Len(parts) : parts[i] \in {"no-cache", "No-Store"}
            THEN ttl_call.ttl = 0
            ELSE IF ValidMaxAges(parts) # {}
            THEN \E i \in ValidMaxAges(parts) :
                    ttl_call.ttl = IF MaxAgeValue(parts[i])[1] < 0 THEN 0
                                   ELSE MaxAgeValue(parts[i])[1]
            ELSE IF expires.kind = "date"
            THEN ttl_call.ttl = (IF expires.at < ttl_call.now THEN 0
                                 ELSE expires.at - ttl_call.now)
            ELSE ttl_call.ttl = 86400

\* The function was called with no-cache standing after a max-age.
C27_Witness ==
    /\ ttl_call.headers.cache_control = <<"max-age=60", "no-cache">>
    /\ ttl_call.ttl = 0

PolicyDisallows(content, path) ==
    \/ \E i \in 1..Len(content) :
          content[i] \in {CommentLine("ai-input: no"), CommentLine("AI-Input: No")}
    \/ \E agent \in WatchedAgents :
          LET parsed == ParseRobotsTxt(content)
              g == FindMatchingGroup(parsed, agent)
          IN  /\ g # 0
              /\ ApplicableIsDisallow(parsed.groups[g].rules, path)

\* The turns of the research loop that judged a robots.txt.
JudgedTurns ==
    {j \in 1..Len(research_tool.log) :
        /\ research_tool.log[j].out.effects # << >>
        /\ research_tool.log[j].out.effects[1] = "check_url_allowed"
        /\ research_tool.log[j].out.failed # "robots"}

\* C25: for a URL whose path the domain's robots policy disallows for a watched
\* agent, fetch_and_extract returns None having done nothing but the robots
\* check (no cache read, no rate-limit wait, no GET), and research has the URL
\* in fetched_urls and no finding for it.
C25_DisallowedUrlIsNotFetched ==
    \A j \in JudgedTurns :
        LET turn == research_tool.log[j]
        IN  PolicyDisallows(turn.out.robots, PathOrRoot(Urlparse(turn.url)))
            => /\ turn.out.effects = <<"check_url_allowed">>
               /\ ~turn.out.raised
               /\ turn.out.result = None
               /\ turn.url \in research_tool.fetched_urls
               /\ \A k \in 1..Len(research_tool.findings) :
                     research_tool.findings[k].source # turn.url

\* C26: a fetch_and_extract(url, q2) that comes, with the same redis_url, within
\* the TTL of the cacheable body the last GET of the URL brought, passes the
\* robots check and has a working extractor issues no GET and returns the
\* extractor's output on the cached body, with a KV store or without.
C26_SecondFetchServedFromCache ==
    (/\ fetch_call.got_before # None
     /\ fetch_call.now < fetch_call.got_before[1].now + fetch_call.got_before[1].ttl
     /\ fetch_call.redis_url = fetch_call.got_before[1].redis_url
     /\ \E i \in 1..Len(fetch_call.out.effects) :
           fetch_call.out.effects[i] = "get_cached_response"
     /\ fetch_call.extract = "ok")
    => /\ \A i \in 1..Len(fetch_call.out.effects) : fetch_call.out.effects[i] # "get"
       /\ fetch_call.out.result # None
       /\ fetch_call.out.result[1].kind = "extracted"
       /\ fetch_call.out.result[1].prompt.query = fetch_call.query
       /\ fetch_call.out.result[1].prompt.document.body.doc =
             fetch_call.got_before[1].text.doc

\* C29: research never raises to the agent: whatever fails, the search or a
\* URL's robots check, rate-limit wait, GET or extraction, the tool returns a
\* string, and it has then called fetch_and_extract for every selected URL.
C29_ResearchNeverRaises ==
    /\ research_tool.pc # "raised"
    /\ research_tool.pc = "returned"
       => /\ research_tool.returned # None
          /\ Len(research_tool.log) = Len(research_tool.urls)

\* The tool returned after a loop whose first URL failed by raising and whose
\* second URL was fetched with a GET.
C29_Witness ==
    /\ research_tool.pc = "returned"
    /\ Len(research_tool.log) = 2
    /\ research_tool.log[1].out.raised
    /\ \E i \in 1..Len(research_tool.log[2].out.effects) :
          research_tool.log[2].out.effects[i] = "get"

\* C30: for every selected URL whose GET failed (network error, HTTP 4xx/5xx,
\* timeout) or whose extraction failed, the string research returns holds a
\* diagnostic for that URL.
C30_FailedUrlsHaveDiagnostic ==
    research_tool.pc = "returned"
    => \A j \in 1..Len(research_tool.log) :
          research_tool.log[j].out.failed \in {"HTTPStatusError", "RequestError", "extract"}
          => /\ research_tool.returned[1].kind = "findings"
             /\ \E k \in 1..Len(research_tool.returned[1].parts) :
                   /\ research_tool.returned[1].parts[k].source = research_tool.log[j].url
                   /\ research_tool.returned[1].parts[k].extracted.kind # "extracted"

\* The position of a step among the steps a call of fetch_and_extract reached,
\* 0 when it did not reach it.
StepAt(effects, step) ==
    IF \E i \in 1..Len(effects) : effects[i] = step
    THEN CHOOSE i \in 1..Len(effects) : effects[i] = step
    ELSE 0

\* C31: get_cached_response never raises: when the read of the KV store fails
\* or the value is no JSON, fetch_and_extract goes on as on a miss, to the
\* rate-limit wait and, once that returned, to the GET.
C31_FailedReadIsAMiss ==
    /\ fetch_call.out.failed # "get_cached_response"
    /\ fetch_call.out.read \in {"RedisError", "JSONDecodeError"}
       => LET effects == fetch_call.out.effects
              k == StepAt(effects, "get_cached_response")
          IN  /\ k > 0
              /\ Len(effects) > k
              /\ effects[k + 1] = "wait_for_rate_limit"
              /\ fetch_call.out.failed # "wait"
                 => /\ Len(effects) > k + 1
                    /\ effects[k + 2] = "get"

\* A call whose cache read failed although the store held a live entry for the
\* URL, and which went on to the GET.
C31_Witness ==
    /\ fetch_call.out.read = "RedisError"
    /\ fetch_call.got_before # None
    /\ fetch_call.got_before[1].redis_url # ""
    /\ fetch_call.now < fetch_call.got_before[1].now + fetch_call.got_before[1].ttl
    /\ StepAt(fetch_call.out.effects, "get") > 0

\* The place of a step in the order the specification gives the steps.
StepRank(step) ==
    CASE step = "check_url_allowed" -> 1
      [] step = "get_cached_response" -> 2
      [] step = "wait_for_rate_limit" -> 3
      [] step = "get" -> 4
      [] step = "cache_response" -> 5
      [] OTHER -> 6

C35_NoUrlFetchedTwice ==
    /\ research_tool.refetched = {}
    /\ research_tool.pc \in {"searching", "returned"}
       => research_tool.attempted \subseteq research_tool.fetched_urls

\* The output, trimmed and uppercased, is the word: white space, then
\* characters whose capitals spell the word, then white space.
TrimsTo(output, word) ==
    \E i \in 1..(Len(output) + 1) :
        /\ i + Len(word) - 1 <= Len(output)
        /\ \A k \in 1..Len(word) : UpperChar(output[i + k - 1]) = word[k]
        /\ \A k \in 1..Len(output) :
              (k < i \/ k > i + Len(word) - 1) => output[k] \in {" ", "\n", "\t"}

\* C32: classify_query returns URL, SEARCH or RESEARCH for every model output:
\* the trimmed, uppercased output when that is one of the three, SEARCH
\* otherwise; and /search creates a chat only when the trimmed, uppercased
\* output is exactly RESEARCH.
C32_ClassificationIsOneOfThree ==
    /\ classify_call.ran
       => /\ classify_call.classification \in {"URL", "SEARCH", "RESEARCH"}
          /\ TrimsTo(classify_call.output, <<"U", "R", "L">>)
             => classify_call.classification = "URL"
          /\ TrimsTo(classify_call.output, <<"R", "E", "S", "E", "A", "R", "C", "H">>)
             => classify_call.classification = "RESEARCH"
          /\ (/\ ~TrimsTo(classify_call.output, <<"U", "R", "L">>)
              /\ ~TrimsTo(classify_call.output, <<"R", "E", "S", "E", "A", "R", "C", "H">>))
             => classify_call.classification = "SEARCH"
    /\ classify_call.status = "chat"
       => /\ classify_call.ran
          /\ TrimsTo(classify_call.output, <<"R", "E", "S", "E", "A", "R", "C", "H">>)

\* The model answered " research\n" and the search opened a chat.
C32_Witness ==
    /\ classify_call.output = <<" ", "r", "e", "s", "e", "a", "r", "c", "h", "\n">>
    /\ classify_call.classification = "RESEARCH"
    /\ classify_call.status = "chat"

\* C34: in in-process mode the lock is free whenever a caller sleeps, and a call
\* of wait_for_rate_limit for a domain reads and writes only that domain's entry
\* of the map: the entry of a domain holds a time written by a caller of that
\* domain (its reservation or its recorded grant), and a caller has slept only
\* if another caller of its own domain called before it, so a caller waiting on
\* a.test neither delays a caller of b.test nor changes b.test's entry.
C34_DomainsAreIndependent ==
    /\ (\E c \in Callers : wpc[c] = "sleeping") => memory_lock = {}
    /\ \A d \in DOMAIN memory_rate_limits :
          \E c \in Callers :
              /\ wpc[c] # "idle"
              /\ wdomain[c] = d
              /\ memory_rate_limits[d] \in {wake[c], grantAt[c]}
    /\ \A c \in Callers :
          (wpc[c] # "idle" /\ wake[c] # 0)
          => \E c2 \in Callers \ {c} : wpc[c2] # "idle" /\ wdomain[c2] = wdomain[c]

\* A caller sleeps on a.test, and in the meantime a first caller of b.test has
\* returned at once, at a time before the sleeper's wake time; a.test's entry
\* still holds the sleeper's reservation.
C34_Witness ==
    \E c1, c2 \in Callers :
        /\ wpc[c1] = "sleeping"
        /\ wdomain[c1] = "a.test"
        /\ clock < wake[c1]
        /\ memory_rate_limits["a.test"] = wake[c1]
        /\ wpc[c2] = "returned"
        /\ wdomain[c2] = "b.test"
        /\ wake[c2] = 0
        /\ grantAt[c2] = clock
        /\ grantAt[c2] > wake[c1] - DelaySeconds
        /\ memory_rate_limits["b.test"] = grantAt[c2]

\* C36: whatever the interleaving of stream requests, a chat never holds two
\* assistant messages that are neighbours in created_at order, and no stream
\* has persisted more than one assistant message.
C36_OneAssistantPerUserMessage ==
    /\ \A id \in ChatIds :
          LET msgs == GetChatMessages(id)
          IN  \A k \in 1..(Len(msgs) - 1) :
                  ~(msgs[k].role = "assistant" /\ msgs[k + 1].role = "assistant")
    /\ \A s \in StreamIds : Len(streams[s].persisted) <= 1

\* Two streams were handed out for the same pending user message.
C36_TwoStreamsPassTheGate ==
    \E s1, s2 \in StreamIds :
        /\ s1 # s2
        /\ streams[s1].resp = "sse"
        /\ streams[s2].resp = "sse"
        /\ streams[s1].chat = streams[s2].chat
        /\ streams[s1].query = streams[s2].query
        /\ streams[s1].history = streams[s2].history

\* C37: every persisted assistant message comes, in its chat's created_at
\* order, right after the user message whose content was the query of the
\* stream that persisted it.
C37_AssistantFollowsItsQuery ==
    \A id \in ChatIds :
        LET msgs == GetChatMessages(id)
        IN  \A k \in 1..Len(msgs) :
                msgs[k].role = "assistant"
                => /\ k > 1
                   /\ msgs[k - 1].role = "user"
                   /\ \E s \in StreamIds :
                         /\ streams[s].chat = id
                         /\ streams[s].persisted = <<msgs[k]>>
                         /\ streams[s].query = msgs[k - 1].content

\* A user message was posted to a chat after a stream for it was handed out.
C37_MessagePostedDuringStream ==
    \E s \in StreamIds :
        /\ streams[s].resp = "sse"
        /\ response.op = "message"
        /\ response.status = "201"
        /\ response.chat = 0
        /\ Len(GetChatMessages(streams[s].chat)) > Len(streams[s].history) + 1

\* C38: a stream whose SSE messages include `done` has committed its assistant
\* message, which is among the chat's rows, and has sent no `error`.
C38_DoneOnlyAfterCommit ==
    \A s \in StreamIds :
        LET st == streams[s]
        IN  (\E k \in 1..Len(st.sse) : st.sse[k].event = "done")
            => /\ Len(st.persisted) = 1
               /\ \E i \in 1..Len(messages) : messages[i] = st.persisted[1]
               /\ \A k \in 1..Len(st.sse) : st.sse[k].event # "error"

\* A stream has sent `done`.
C38_DoneWasSent ==
    \E s \in StreamIds : \E k \in 1..Len(streams[s].sse) : streams[s].sse[k].event = "done"

\* An assistant message is among the rows.
AssistantPersisted ==
    \E i \in 1..Len(messages) : messages[i].role = "assistant"

\* A call of wait_for_rate_limit that was made and has not returned.
CallPending ==
    \/ \E c \in Callers : wpc[c] = "sleeping"
    \/ \E c \in Clients : redis_pc[c] \in {"set", "pttl", "sleeping"}

\* C39: with finitely many callers of wait_for_rate_limit on one domain, in
\* either mode, and a clock that keeps advancing, every call that was made
\* eventually returns: a sleeper of the in-process mode is resumed and gets the
\* lock, and a caller of the Redis mode gets out of its retry loop.  A call
\* that has returned stays returned, so this says that again and again no call
\* is pending.
C39_EveryCallReturns == []<>(~CallPending)

\* Every client of the Redis mode has returned, the last of them two delays
\* after the first, having slept through the key of the client before it.
C39_Witness ==
    /\ \A c \in Clients : redis_pc[c] = "returned"
    /\ \E c1, c2 \in Clients :
          /\ redis_remaining[c2] > 0
          /\ redis_grant[c2] >= redis_grant[c1] + 2 * DelaySeconds

\* Every caller of the in-process mode has returned, one of them after a sleep.
C39_AllSleepersReturned ==
    /\ \A c \in Callers : wpc[c] = "returned"
    /\ \E c \in Callers : wake[c] > 0 /\ grantAt[c] >= wake[c]


=============================================================================
